---- MODULE Spec2Model ----
(***************************************************************************)
(* Ingestion / classification / publication pipeline of the recommendation *)
(* bot: the Recommendation Store (RecommendationService over the           *)
(* recommendations table), processRecommendation, the live message         *)
(* handler, the startup backfill, the bulk-import script and the           *)
(* multi-library migration tool.                                           *)
(*                                                                         *)
(* Every `await` of the source is a suspension point, so every action      *)
(* below is one awaited call together with the synchronous code that       *)
(* follows it up to the next await.                                        *)
(***************************************************************************)
EXTENDS Integers, Sequences, FiniteSets, TLC

(***************************************************************************)
(* Bounds of the model.                                                    *)
(***************************************************************************)
NumMsgs == 2        \* messages posted to the recommendations channel
NumResults == 1     \* distinct results the Synthesizer may return
NumLive == 1        \* MessageCreate handlers that may be in flight at once
MaxRestarts == 1    \* shutdown / start cycles of the bot process
NumCallers == 2     \* concurrent callers of the Store API (SpecStore)
MaxStoreCalls == 3  \* recordError calls issued by those callers (SpecStore)
MaxExtracts == 2    \* calls of ContentExtractor.extract that are logged (SpecExtract)
MaxHistory == 102   \* messages in the channel when its history is fetched (SpecFetch)

\* recommendations.ts:104  processingAttempts: { lt: 3 }
MaxAttempts == 3

\* backfill-service.ts:51  fetchChannelMessagesAfter(channel, lastProcessedAt, 100)
SafetyLimit == 100

\* backfill-service.ts:184  Math.min(100, remainingSlots)
BatchLimit == 100

Null == "null"
NoItem == [id |-> [kind |-> "none", n |-> 0], url |-> Null, hasUrl |-> FALSE]

(***************************************************************************)
(* URLs.  A URL is a string; the strings of the model are listed with      *)
(* their lower-cased, trimmed form (String.trim().toLowerCase()).          *)
(***************************************************************************)
UrlA == "https://a.example/Post"
UrlALower == "https://a.example/post"
UrlB == "https://b.example/talk"
Urls == {UrlA, UrlALower, UrlB}

TrimToLowerCase(u) == IF u = UrlA THEN UrlALower ELSE u

\* sha256(...).substring(0,16): a function of the normalised string only;
\* the model keeps the normalised string as the digest.
generateSyntheticMessageId(u) == [kind |-> "bulk", n |-> TrimToLowerCase(u)]

MessageId(n) == [kind |-> "msg", n |-> n]

(***************************************************************************)
(* Results of the Metadata Synthesizer (AnalysisResult in claude/client).  *)
(* `title` stands for the descriptive fields that always travel together   *)
(* (title, description, contentType, topics, duration, qualityScore,       *)
(* sentiment, aiSummary); 0 is the value of a row not yet analysed.        *)
(***************************************************************************)
Classifications ==
  << [libraryType |-> "fiction", primaryTag |-> "Novel/Book", secondaryTags |-> <<"Fantasy">>],
     [libraryType |-> "growth", primaryTag |-> "Tech & Code", secondaryTags |-> <<"Productivity">>],
     [libraryType |-> "athenaeum", primaryTag |-> "History", secondaryTags |-> <<"Anthropology">>] >>

AnalysisResults ==
  { [title |-> i,
     libraryType |-> Classifications[((i - 1) % 3) + 1].libraryType,
     primaryTag |-> Classifications[((i - 1) % 3) + 1].primaryTag,
     secondaryTags |-> Classifications[((i - 1) % 3) + 1].secondaryTags]
    : i \in 1..NumResults }
NoMetadata == [title |-> 0, libraryType |-> Null, primaryTag |-> Null,
               secondaryTags |-> <<>>]

ErrSynthesis == "No JSON found in Claude response"
ErrOther == "Unknown error"
Errors == {ErrSynthesis, ErrOther}

(***************************************************************************)
(* The recommendations table.  `rows` is the sequence of rows in creation  *)
(* order (createdAt asc); a row's id is its position.  A forum post id of  *)
(* 0 and a processedAt of 0 stand for NULL.                                *)
(***************************************************************************)
NewRow(data) ==
  [originalMessageId |-> data.originalMessageId,
   url |-> data.url,
   title |-> 0,
   libraryType |-> Null,
   primaryTag |-> Null,
   secondaryTags |-> <<>>,
   forumPostId |-> 0,
   forumThreadId |-> 0,
   processed |-> FALSE,
   processedAt |-> 0,
   processingError |-> Null,
   processingAttempts |-> 0]

\* recommendations_originalMessageId_key: the unique index on the identity
UniqueViolation(rs, mid) ==
  \E i \in DOMAIN rs : rs[i].originalMessageId = mid

\* prisma.recommendation.update({ where: { id }, data }): the fields named
\* in `data` are written, every other field keeps its value
Update(rs, r, data) ==
  [rs EXCEPT ![r] = [f \in DOMAIN @ |-> IF f \in DOMAIN data THEN data[f] ELSE @[f]]]

\* create without the unique index on originalMessageId
create_NoUniqueIndex(rs, data) ==
  [ok |-> TRUE, rows |-> Append(rs, NewRow(data))]

\* create written as an upsert: a stored identity is overwritten
create_Upsert(rs, data) ==
  IF UniqueViolation(rs, data.originalMessageId)
  THEN [ok |-> TRUE,
        rows |-> [i \in DOMAIN rs |->
                    IF rs[i].originalMessageId = data.originalMessageId
                    THEN NewRow(data) ELSE rs[i]]]
  ELSE [ok |-> TRUE, rows |-> Append(rs, NewRow(data))]

\* prisma.recommendation.create: rejected by the unique index when the
\* identity is already stored (the promise rejects and nothing is written)
create(rs, data) ==
  IF UniqueViolation(rs, data.originalMessageId)
  THEN [ok |-> FALSE, rows |-> rs]
  ELSE [ok |-> TRUE, rows |-> Append(rs, NewRow(data))]

findByMessageId(rs, mid) ==
  IF \E i \in DOMAIN rs : rs[i].originalMessageId = mid
  THEN CHOOSE i \in DOMAIN rs : rs[i].originalMessageId = mid
  ELSE 0

updateMetadata(rs, r, metadata) == Update(rs, r, metadata)

markAsProcessed(rs, r, forumPostId, forumThreadId, now) ==
  Update(rs, r, [processed |-> TRUE, processedAt |-> now,
                 forumPostId |-> forumPostId, forumThreadId |-> forumThreadId])

\* recordError that also closes the row
recordErrorUpdate_Terminal(rs, r, error, current) ==
  Update(rs, r, [processingError |-> error, processingAttempts |-> current + 1,
                 processed |-> TRUE])

\* a recordError that removes the row once the ceiling is reached
recordErrorUpdate_Purge(rs, r, error, current) ==
  IF current + 1 >= MaxAttempts
  THEN [i \in 1..(Len(rs) - 1) |-> IF i < r THEN rs[i] ELSE rs[i + 1]]
  ELSE Update(rs, r, [processingError |-> error, processingAttempts |-> current + 1])

\* ConversationService.getNextMessageNumber: the thread's stored messages
\* are counted
getNextMessageNumber(cm, threadId) ==
  Cardinality({i \in DOMAIN cm : cm[i].threadId = threadId}) + 1

\* ConversationService.storeMessage: prisma.conversationMessage.create under
\* conversation_messages_messageId_key, the table's one unique index
storeMessage(cm, data) ==
  IF \E i \in DOMAIN cm : cm[i].messageId = data.messageId
  THEN [ok |-> FALSE, rows |-> cm]
  ELSE [ok |-> TRUE, rows |-> Append(cm, data)]

\* second statement of recordError; `current` is the value read by the first
recordErrorUpdate(rs, r, error, current) ==
  Update(rs, r, [processingError |-> error, processingAttempts |-> current + 1])

RECURSIVE Take(_, _)
Take(s, n) == IF n = 0 \/ s = <<>> THEN <<>> ELSE <<Head(s)>> \o Take(Tail(s), n - 1)

RECURSIVE Filter(_, _)
Filter(s, keep) ==
  IF s = <<>> THEN <<>>
  ELSE (IF keep[Head(s)] THEN <<Head(s)>> ELSE <<>>) \o Filter(Tail(s), keep)

Ids(rs) == [i \in 1..Len(rs) |-> i]

\* the gate written with lte instead of lt
getUnprocessed_Lte(rs, limit) ==
  Take(Filter(Ids(rs), [i \in DOMAIN rs |->
         ~rs[i].processed /\ rs[i].processingAttempts <= MaxAttempts]), limit)

getUnprocessed(rs, limit) ==
  Take(Filter(Ids(rs), [i \in DOMAIN rs |->
         ~rs[i].processed /\ rs[i].processingAttempts < MaxAttempts]), limit)

Max(S) == CHOOSE x \in S : \A y \in S : y <= x

\* 0 stands for "no processed row" (null)
getLastProcessedTimestamp(rs) ==
  LET ts == {rs[i].processedAt : i \in {j \in DOMAIN rs : rs[j].processed}}
  IN IF ts = {} THEN 0 ELSE Max(ts)

\* a bulk check that reports no identity as stored
findExistingMessageIds_None(rs, messageIds) == {}

findExistingMessageIds(rs, messageIds) ==
  {rs[i].originalMessageId : i \in {j \in DOMAIN rs : rs[j].originalMessageId \in messageIds}}

\* a URL check that reports no URL as stored
findExistingUrls_None(rs, urls) == {}

findExistingUrls(rs, urls) ==
  {rs[i].url : i \in {j \in DOMAIN rs : rs[j].url \in urls}}


(***************************************************************************)
(* Library tag vocabularies and tag matching (config/library-tags.ts).     *)
(* The model keeps, of each library's 20 tags, the ones listed below with  *)
(* all their synonyms.  A string is named by a TLA+ string; Chars gives    *)
(* its characters, on which toLowerCase and includes work.                 *)
(***************************************************************************)
\* forum-poster.ts:96  if (appliedTags.length >= 5) break; // Discord limit
TagLimit == 5

LIBRARY_TAGS ==
  [
   fiction |->
    <<
       [name |-> "Novel/Book",
        synonyms |-> <<"novel", "book", "fiction book", "literature", "story", "narrative">>],
       [name |-> "Fantasy",
        synonyms |-> <<"fantasy", "high fantasy", "magic", "wizards", "dragons", "epic fantasy", "urban fantasy">>] >>,
   athenaeum |->
    <<
       [name |-> "Essay/Paper",
        synonyms |-> <<"essay", "paper", "article", "academic", "long-read", "publication">>],
       [name |-> "History",
        synonyms |-> <<"history", "historical", "ancient", "modern history", "past events", "civilization">>],
       [name |-> "Philosophy",
        synonyms |-> <<"philosophy", "ethics", "logic", "existentialism", "metaphysics", "philosophical">>],
       [name |-> "Psychology",
        synonyms |-> <<"psychology", "behavior", "mind", "cognitive", "mental processes", "psychological">>],
       [name |-> "Anthropology",
        synonyms |-> <<"anthropology", "culture", "cultures", "religion", "human societies", "ethnography">>],
       [name |-> "Art History",
        synonyms |-> <<"art history", "art", "artistic movements", "artists", "visual arts">>],
       [name |-> "Academic",
        synonyms |-> <<"academic", "scholarly", "dense", "rigorous", "complex", "technical">>] >>,
   growth |->
    <<
       [name |-> "Tech & Code",
        synonyms |-> <<"tech", "technology", "code", "coding", "programming", "development", "software", "ai">>],
       [name |-> "Productivity",
        synonyms |-> <<"productivity", "efficiency", "time management", "organization", "gtd", "systems">>] >> ]

\* the characters of the strings of the model
Chars ==
     ("" :> <<>>)
  @@ ("Novel/Book" :> <<"N", "o", "v", "e", "l", "/", "B", "o", "o", "k">>)
  @@ ("novel" :> <<"n", "o", "v", "e", "l">>)
  @@ ("book" :> <<"b", "o", "o", "k">>)
  @@ ("fiction book" :> <<"f", "i", "c", "t", "i", "o", "n", " ", "b", "o", "o", "k">>)
  @@ ("literature" :> <<"l", "i", "t", "e", "r", "a", "t", "u", "r", "e">>)
  @@ ("story" :> <<"s", "t", "o", "r", "y">>)
  @@ ("narrative" :> <<"n", "a", "r", "r", "a", "t", "i", "v", "e">>)
  @@ ("Fantasy" :> <<"F", "a", "n", "t", "a", "s", "y">>)
  @@ ("fantasy" :> <<"f", "a", "n", "t", "a", "s", "y">>)
  @@ ("high fantasy" :> <<"h", "i", "g", "h", " ", "f", "a", "n", "t", "a", "s", "y">>)
  @@ ("magic" :> <<"m", "a", "g", "i", "c">>)
  @@ ("wizards" :> <<"w", "i", "z", "a", "r", "d", "s">>)
  @@ ("dragons" :> <<"d", "r", "a", "g", "o", "n", "s">>)
  @@ ("epic fantasy" :> <<"e", "p", "i", "c", " ", "f", "a", "n", "t", "a", "s", "y">>)
  @@ ("urban fantasy" :> <<"u", "r", "b", "a", "n", " ", "f", "a", "n", "t", "a", "s", "y">>)
  @@ ("Essay/Paper" :> <<"E", "s", "s", "a", "y", "/", "P", "a", "p", "e", "r">>)
  @@ ("essay" :> <<"e", "s", "s", "a", "y">>)
  @@ ("paper" :> <<"p", "a", "p", "e", "r">>)
  @@ ("article" :> <<"a", "r", "t", "i", "c", "l", "e">>)
  @@ ("academic" :> <<"a", "c", "a", "d", "e", "m", "i", "c">>)
  @@ ("long-read" :> <<"l", "o", "n", "g", "-", "r", "e", "a", "d">>)
  @@ ("publication" :> <<"p", "u", "b", "l", "i", "c", "a", "t", "i", "o", "n">>)
  @@ ("History" :> <<"H", "i", "s", "t", "o", "r", "y">>)
  @@ ("history" :> <<"h", "i", "s", "t", "o", "r", "y">>)
  @@ ("historical" :> <<"h", "i", "s", "t", "o", "r", "i", "c", "a", "l">>)
  @@ ("ancient" :> <<"a", "n", "c", "i", "e", "n", "t">>)
  @@ ("modern history" :> <<"m", "o", "d", "e", "r", "n", " ", "h", "i", "s", "t", "o", "r", "y">>)
  @@ ("past events" :> <<"p", "a", "s", "t", " ", "e", "v", "e", "n", "t", "s">>)
  @@ ("civilization" :> <<"c", "i", "v", "i", "l", "i", "z", "a", "t", "i", "o", "n">>)
  @@ ("Philosophy" :> <<"P", "h", "i", "l", "o", "s", "o", "p", "h", "y">>)
  @@ ("philosophy" :> <<"p", "h", "i", "l", "o", "s", "o", "p", "h", "y">>)
  @@ ("ethics" :> <<"e", "t", "h", "i", "c", "s">>)
  @@ ("logic" :> <<"l", "o", "g", "i", "c">>)
  @@ ("existentialism" :> <<"e", "x", "i", "s", "t", "e", "n", "t", "i", "a", "l", "i", "s", "m">>)
  @@ ("metaphysics" :> <<"m", "e", "t", "a", "p", "h", "y", "s", "i", "c", "s">>)
  @@ ("philosophical" :> <<"p", "h", "i", "l", "o", "s", "o", "p", "h", "i", "c", "a", "l">>)
  @@ ("Psychology" :> <<"P", "s", "y", "c", "h", "o", "l", "o", "g", "y">>)
  @@ ("psychology" :> <<"p", "s", "y", "c", "h", "o", "l", "o", "g", "y">>)
  @@ ("behavior" :> <<"b", "e", "h", "a", "v", "i", "o", "r">>)
  @@ ("mind" :> <<"m", "i", "n", "d">>)
  @@ ("cognitive" :> <<"c", "o", "g", "n", "i", "t", "i", "v", "e">>)
  @@ ("mental processes" :> <<"m", "e", "n", "t", "a", "l", " ", "p", "r", "o", "c", "e", "s", "s", "e", "s">>)
  @@ ("psychological" :> <<"p", "s", "y", "c", "h", "o", "l", "o", "g", "i", "c", "a", "l">>)
  @@ ("Anthropology" :> <<"A", "n", "t", "h", "r", "o", "p", "o", "l", "o", "g", "y">>)
  @@ ("anthropology" :> <<"a", "n", "t", "h", "r", "o", "p", "o", "l", "o", "g", "y">>)
  @@ ("culture" :> <<"c", "u", "l", "t", "u", "r", "e">>)
  @@ ("cultures" :> <<"c", "u", "l", "t", "u", "r", "e", "s">>)
  @@ ("religion" :> <<"r", "e", "l", "i", "g", "i", "o", "n">>)
  @@ ("human societies" :> <<"h", "u", "m", "a", "n", " ", "s", "o", "c", "i", "e", "t", "i", "e", "s">>)
  @@ ("ethnography" :> <<"e", "t", "h", "n", "o", "g", "r", "a", "p", "h", "y">>)
  @@ ("Art History" :> <<"A", "r", "t", " ", "H", "i", "s", "t", "o", "r", "y">>)
  @@ ("art history" :> <<"a", "r", "t", " ", "h", "i", "s", "t", "o", "r", "y">>)
  @@ ("art" :> <<"a", "r", "t">>)
  @@ ("artistic movements" :> <<"a", "r", "t", "i", "s", "t", "i", "c", " ", "m", "o", "v", "e", "m", "e", "n", "t", "s">>)
  @@ ("artists" :> <<"a", "r", "t", "i", "s", "t", "s">>)
  @@ ("visual arts" :> <<"v", "i", "s", "u", "a", "l", " ", "a", "r", "t", "s">>)
  @@ ("Academic" :> <<"A", "c", "a", "d", "e", "m", "i", "c">>)
  @@ ("scholarly" :> <<"s", "c", "h", "o", "l", "a", "r", "l", "y">>)
  @@ ("dense" :> <<"d", "e", "n", "s", "e">>)
  @@ ("rigorous" :> <<"r", "i", "g", "o", "r", "o", "u", "s">>)
  @@ ("complex" :> <<"c", "o", "m", "p", "l", "e", "x">>)
  @@ ("technical" :> <<"t", "e", "c", "h", "n", "i", "c", "a", "l">>)
  @@ ("Tech & Code" :> <<"T", "e", "c", "h", " ", "&", " ", "C", "o", "d", "e">>)
  @@ ("tech" :> <<"t", "e", "c", "h">>)
  @@ ("technology" :> <<"t", "e", "c", "h", "n", "o", "l", "o", "g", "y">>)
  @@ ("code" :> <<"c", "o", "d", "e">>)
  @@ ("coding" :> <<"c", "o", "d", "i", "n", "g">>)
  @@ ("programming" :> <<"p", "r", "o", "g", "r", "a", "m", "m", "i", "n", "g">>)
  @@ ("development" :> <<"d", "e", "v", "e", "l", "o", "p", "m", "e", "n", "t">>)
  @@ ("software" :> <<"s", "o", "f", "t", "w", "a", "r", "e">>)
  @@ ("ai" :> <<"a", "i">>)
  @@ ("Productivity" :> <<"P", "r", "o", "d", "u", "c", "t", "i", "v", "i", "t", "y">>)
  @@ ("productivity" :> <<"p", "r", "o", "d", "u", "c", "t", "i", "v", "i", "t", "y">>)
  @@ ("efficiency" :> <<"e", "f", "f", "i", "c", "i", "e", "n", "c", "y">>)
  @@ ("time management" :> <<"t", "i", "m", "e", " ", "m", "a", "n", "a", "g", "e", "m", "e", "n", "t">>)
  @@ ("organization" :> <<"o", "r", "g", "a", "n", "i", "z", "a", "t", "i", "o", "n">>)
  @@ ("gtd" :> <<"g", "t", "d">>)
  @@ ("systems" :> <<"s", "y", "s", "t", "e", "m", "s">>)
  @@ ("Art" :> <<"A", "r", "t">>)
  @@ ("General" :> <<"G", "e", "n", "e", "r", "a", "l">>)

Upper == <<"A", "B", "C", "D", "E", "F", "G", "H", "I", "J", "K", "L", "M",
           "N", "O", "P", "Q", "R", "S", "T", "U", "V", "W", "X", "Y", "Z">>
Lower == <<"a", "b", "c", "d", "e", "f", "g", "h", "i", "j", "k", "l", "m",
           "n", "o", "p", "q", "r", "s", "t", "u", "v", "w", "x", "y", "z">>

\* the lower-case form of every string of the model, character by character
LowerChars ==
  [s \in DOMAIN Chars |->
     [i \in DOMAIN Chars[s] |->
        IF \E k \in DOMAIN Upper : Upper[k] = Chars[s][i]
        THEN Lower[CHOOSE k \in DOMAIN Upper : Upper[k] = Chars[s][i]]
        ELSE Chars[s][i]]]

\* String.prototype.toLowerCase: the characters of the lower-cased string
toLowerCase(s) == LowerChars[s]

\* String.prototype.includes: t occurs in s as a run of characters
includes(s, t) ==
  \E i \in 0..(Len(s) - Len(t)) : SubSeq(s, i + 1, i + Len(t)) = t

\* `undefined` as the result of findMatchingTag
NoTag == [name |-> "", id |-> 0]

\* findMatchingTag: the first tag of availableTags, in the forum's order,
\* that is not applied yet, has a configuration in the library, and whose
\* label or one of whose synonyms contains the topic or is contained in it
findMatchingTag(topic, libraryType, availableTags, alreadyApplied) ==
  LET topicLower == toLowerCase(topic)
      libraryTags == LIBRARY_TAGS[libraryType]
      hits ==
        {i \in DOMAIN availableTags :
           LET tag == availableTags[i]
               tagNameLower == toLowerCase(tag.name)
               configs == {k \in DOMAIN libraryTags :
                             toLowerCase(libraryTags[k].name) = tagNameLower}
               tagConfig == libraryTags[CHOOSE k \in configs : \A j \in configs : k <= j]
           IN /\ ~(\E a \in DOMAIN alreadyApplied : alreadyApplied[a] = tag.id)
              /\ configs # {}
              /\ \/ includes(topicLower, tagNameLower)
                 \/ includes(tagNameLower, topicLower)
                 \/ \E y \in DOMAIN tagConfig.synonyms :
                      \/ includes(topicLower, Chars[tagConfig.synonyms[y]])
                      \/ includes(Chars[tagConfig.synonyms[y]], topicLower)}
  IN IF hits = {} THEN NoTag
     ELSE availableTags[CHOOSE i \in hits : \A j \in hits : i <= j]

\* locals of createForumPost's tag resolution: the forum's configured tags,
\* the ids applied so far, the index of the next secondary tag and the last
\* call of findMatchingTag with its result
NoTagging ==
  [availableTags |-> <<>>, appliedTags |-> <<>>, next |-> 0,
   call |-> [topic |-> "", alreadyApplied |-> <<>>, result |-> NoTag]]

(***************************************************************************)
(* URLs as the content services see them (content/index.ts and the four    *)
(* extractors).  A URL string is the sequence of the pieces it is written  *)
(* with: "https://", "www.", "youtube.com", "/", "watch", "?", "v=", ...   *)
(* Concatenating two strings is concatenating the sequences, and a string  *)
(* contains a domain exactly when the domain is one of its pieces.         *)
(***************************************************************************)
Schemes == {"https://", "http://"}

\* the URLs the model hands to the content services: with and without a
\* scheme, video ids in the query and in the path, extra query parameters,
\* a percent-encoded "&" inside an id, and three strings that are no URLs
UrlInputs ==
  LET schemes == {<<>>, <<"https://">>, <<"http://">>}
      hosts == {<<"www.", "youtube.com">>, <<"youtu.be">>, <<"YouTube.com">>,
                <<"audible.com">>, <<"open.", "spotify.com">>, <<"twitter.com">>,
                <<"example.org">>}
      paths == {<<>>, <<"/">>, <<"/", "watch">>, <<"/", "embed", "/", "abc">>,
                <<"/", "abc">>, <<"/", "abc", "%26", "abc">>, <<"/", "youtube.com">>}
      queries == {<<>>, <<"?", "v=", "abc">>, <<"?", "v=", "abc", "&", "t=", "abc">>,
                  <<"?", "t=", "abc", "&", "v=", "abc">>,
                  <<"?", "v=", "abc", "%26", "abc">>, <<"?", "v=">>}
  IN {s \o h \o p \o q : s \in schemes, h \in hosts, p \in paths, q \in queries}
       \cup {<<>>, <<"dQw4w9WgXcQ">>, <<"https://">>}

\* new URL(u) with the three members the services read: hostname (lower
\* case), pathname.split('/').pop() and searchParams.get('v') (percent
\* decoded, <<>> when there is none); ok is FALSE when new URL throws
newURL(u) ==
  LET Before(s, S) ==
        IF \E i \in DOMAIN s : s[i] \in S
        THEN SubSeq(s, 1, (CHOOSE i \in DOMAIN s :
                             s[i] \in S /\ \A j \in 1..(i - 1) : s[j] \notin S) - 1)
        ELSE s
      From(s, S) == SubSeq(s, Len(Before(s, S)) + 1, Len(s))
      Pop(path) ==
        LET slashes == {i \in DOMAIN path : path[i] = "/"}
        IN IF slashes = {} THEN <<>>
           ELSE SubSeq(path, (CHOOSE i \in slashes : \A j \in slashes : j <= i) + 1,
                       Len(path))
      Decode(raw) == [i \in 1..Len(raw) |-> IF raw[i] = "%26" THEN "&" ELSE raw[i]]
      Get(query) ==
        LET starts == {k \in DOMAIN query :
                         query[k] = "v=" /\ (k = 1 \/ query[k - 1] = "&")}
        IN IF starts = {} THEN <<>>
           ELSE Decode(Before(SubSeq(query,
                                     (CHOOSE k \in starts : \A t \in starts : k <= t) + 1,
                                     Len(query)), {"&"}))
      Query(afterPath) ==
        IF afterPath # <<>> /\ Head(afterPath) = "?"
        THEN Before(Tail(afterPath), {"#"}) ELSE <<>>
      Parse(host, afterHost) ==
        [ok |-> host # <<>>,
         hostname |-> [i \in DOMAIN host |->
                         CASE host[i] = "YouTube.com" -> "youtube.com"
                           [] host[i] = "dQw4w9WgXcQ" -> "dqw4w9wgxcq"
                           [] OTHER -> host[i]],
         pop |-> Pop(Before(afterHost, {"?", "#"})),
         v |-> Get(Query(From(afterHost, {"?", "#"})))]
  IN IF u = <<>> \/ u[1] \notin Schemes
     THEN [ok |-> FALSE, hostname |-> <<>>, pop |-> <<>>, v |-> <<>>]
     ELSE Parse(Before(Tail(u), {"/", "?", "#"}), From(Tail(u), {"/", "?", "#"}))

\* <<>> stands for null: a match of ([^&\n?#]+) is never empty
extractVideoId(url) ==
  LET n == Len(url)
      prefixes == {<<"youtube.com", "/", "watch", "?", "v=">>, <<"youtu.be", "/">>,
                   <<"youtube.com", "/", "embed", "/">>}
      Stop == {"&", "?", "#"}
      MatchAt(i, p) == /\ i + Len(p) <= n
                       /\ SubSeq(url, i, i + Len(p) - 1) = p
                       /\ url[i + Len(p)] \notin Stop
      Group(from) ==
        SubSeq(url, from,
               IF \E e \in from..n : url[e] \in Stop
               THEN (CHOOSE e \in from..n :
                       url[e] \in Stop /\ \A f \in from..(e - 1) : url[f] \notin Stop) - 1
               ELSE n)
      Leftmost(hits) ==
        IF hits # {}
        THEN Group((CHOOSE i \in hits : \A j \in hits : i <= j)
                   + Len(CHOOSE p \in prefixes :
                           MatchAt(CHOOSE i \in hits : \A j \in hits : i <= j, p)))
        ELSE IF url = <<"dQw4w9WgXcQ">> THEN url
        ELSE <<>>
  IN Leftmost({i \in 1..n : \E p \in prefixes : MatchAt(i, p)})

isYouTubeUrl(url) ==
  \/ \E i \in DOMAIN url : url[i] = "youtube.com"
  \/ \E i \in DOMAIN url : url[i] = "youtu.be"
  \/ extractVideoId(url) # <<>>

\* of the domain lists of the three predicates below the model keeps the
\* domains that occur in UrlInputs
isAudiobookUrl(url) ==
  LET Test(urlObj) ==
        /\ urlObj.ok
        /\ \E domain \in {"audible.com"} :
             \E i \in DOMAIN urlObj.hostname : urlObj.hostname[i] = domain
  IN Test(newURL(url))

isPodcastUrl(url) ==
  LET Test(urlObj) ==
        /\ urlObj.ok
        /\ \E domain \in {"spotify.com"} :
             \E i \in DOMAIN urlObj.hostname : urlObj.hostname[i] = domain
  IN Test(newURL(url))

isArticleUrl(url) ==
  LET Test(urlObj) ==
        /\ urlObj.ok
        /\ ~\E domain \in {"youtube.com", "youtu.be", "spotify.com", "twitter.com"} :
              \E i \in DOMAIN urlObj.hostname : urlObj.hostname[i] = domain
  IN Test(newURL(url))

\* a classifier whose article rule has no try/catch around new URL
detectType_NoCatch(url) ==
  CASE isYouTubeUrl(url) -> "youtube"
    [] isAudiobookUrl(url) -> "audiobook"
    [] isPodcastUrl(url) -> "podcast"
    [] ~newURL(url).ok -> "TypeError"
    [] isArticleUrl(url) -> "article"
    [] OTHER -> "other"

\* a classifier that tests the article rule before the audiobook rule
detectType_ArticleFirst(url) ==
  CASE isYouTubeUrl(url) -> "youtube"
    [] isArticleUrl(url) -> "article"
    [] isAudiobookUrl(url) -> "audiobook"
    [] isPodcastUrl(url) -> "podcast"
    [] OTHER -> "other"

\* ContentExtractor.detectType
detectType(url) ==
  CASE isYouTubeUrl(url) -> "youtube"
    [] isAudiobookUrl(url) -> "audiobook"
    [] isPodcastUrl(url) -> "podcast"
    [] isArticleUrl(url) -> "article"
    [] OTHER -> "other"

\* detectContentType of the URL utilities
detectContentType(url) ==
  LET Type(urlObj) ==
        LET Has(d) == \E i \in DOMAIN urlObj.hostname : urlObj.hostname[i] = d
        IN CASE ~urlObj.ok -> "other"
             [] Has("youtube.com") \/ Has("youtu.be") -> "youtube"
             [] Has("spotify.com") -> "spotify"
             [] Has("github.com") -> "github"
             [] Has("overcast.fm") \/ Has("castbox.fm") -> "podcast"
             [] OTHER -> "article"
  IN Type(newURL(url))

\* ContentExtractor.normalizeUrl
normalizeUrl(url) ==
  LET youtube == \E i \in DOMAIN url : url[i] \in {"youtube.com", "youtu.be"}
      protocol == IF url = <<>> \/ url[1] \notin Schemes
                  THEN <<"https://">> \o url ELSE url
      Canonical(videoId) ==
        IF videoId # <<>>
        THEN <<"https://", "www.", "youtube.com", "/", "watch", "?", "v=">> \o videoId
        ELSE protocol
      Try(urlObj) ==
        IF ~urlObj.ok THEN url
        ELSE Canonical(IF urlObj.v # <<>> THEN urlObj.v ELSE urlObj.pop)
  IN IF youtube THEN Try(newURL(url)) ELSE protocol

\* locals of ContentExtractor.extract and YouTubeExtractor.extract for the
\* item in hand, and the classifier calls made on its URL
NoContent ==
  [url |-> <<>>, normalizedUrl |-> <<>>, detected |-> <<>>, videoId |-> <<>>,
   info |-> [title |-> <<>>, short_description |-> <<>>],
   transcript |-> [kind |-> "none", initial_segments |-> <<>>],
   envelope |-> [type |-> "none", content |-> <<>>, transcribed |-> FALSE]]

(***************************************************************************)
(* State.                                                                  *)
(***************************************************************************)
VARIABLES
  clock,      \* Date.now(), advanced by every timestamped event
  channel,    \* messages of the recommendations channel, oldest first
  rows,       \* the recommendations table
  forum,      \* forum threads created so far; a thread's id is its position
  proc,       \* per activity: position in its code and its local variables
  bf,         \* locals of backfillMissedRecommendations
  bulk,       \* locals of runBulkImport
  mig,        \* locals of migrateToMultiLibrary
  boots,      \* number of restarts of the bot process so far
  unprocessed,\* value returned by the last getUnprocessed call
  calls,      \* number of Store calls issued by the API callers
  hist,       \* per row: observed calls (createForumPost, pipeline runs, recordError)
  abandoned,  \* rows that were mid-pipeline when the bot process stopped
  conversation \* the conversation_messages table, in creation order

vars == <<clock, channel, rows, forum, proc, bf, bulk, mig, boots, unprocessed,
          calls, hist, abandoned, conversation>>

LiveProcs == {[k |-> "live", i |-> i] : i \in 1..NumLive}
Backfill == [k |-> "backfill", i |-> 0]
Bulk == [k |-> "bulk", i |-> 0]
Migrate == [k |-> "migrate", i |-> 0]
Callers == {[k |-> "caller", i |-> i] : i \in 1..NumCallers}
Coordinator == [k |-> "extract", i |-> 0]
BotProcs == LiveProcs \cup {Backfill}
Procs == BotProcs \cup {Bulk, Migrate, Coordinator} \cup Callers

IdleProc ==
  [pc |-> "idle", item |-> NoItem, rid |-> 0, md |-> NoMetadata, err |-> Null,
   current |-> 0, postId |-> 0, signal |-> "none", saw |-> {},
   extractedContent |-> FALSE, matches |-> {}, invoked |-> <<>>, log |-> <<>>,
   tagging |-> NoTagging, content |-> NoContent,
   mention |-> [threadId |-> 0, isBot |-> FALSE, messageNumber |-> 0]]

IdleBackfill ==
  [lastProcessedAt |-> 0, messages |-> <<>>, queue |-> <<>>,
   allMessages |-> <<>>, lastMessageId |-> 0, fetches |-> 0,
   result |-> [checked |-> 0, processed |-> 0, skipped |-> 0, errors |-> 0]]

IdleBulk ==
  [urls |-> <<>>, existingMessageIds |-> {}, queue |-> <<>>,
   result |-> [total |-> 0, processed |-> 0, skippedDuplicates |-> 0, failed |-> 0]]

IdleMigrate == [queue |-> <<>>, processed |-> 0, errors |-> 0]

NewHist == [postCalls |-> 0, postFailed |-> FALSE, runs |-> 0, errCalls |-> 0]

Init ==
  /\ clock = 1
  /\ channel = <<>>
  /\ rows = <<>>
  /\ forum = <<>>
  /\ proc = [p \in Procs |-> IdleProc]
  /\ bf = IdleBackfill
  /\ bulk = IdleBulk
  /\ mig = IdleMigrate
  /\ boots = 0
  /\ unprocessed = [limit |-> 0, ids |-> <<>>]
  /\ calls = 0
  /\ hist = <<>>
  /\ abandoned = {}
  /\ conversation = <<>>

(***************************************************************************)
(* Helpers on the local state.                                             *)
(***************************************************************************)
At(p, l) == proc[p].pc = l
Goto(p, l) == [proc EXCEPT ![p].pc = l]

MessageItem(n) ==
  [id |-> MessageId(n), url |-> channel[n].url, hasUrl |-> channel[n].url # Null]

\* rows of the item's identity that are classified, unpublished, with a failed
\* post creation behind them and an attempt counter below the ceiling
RetryableFailed(mids) ==
  {r \in DOMAIN rows :
     /\ rows[r].originalMessageId \in mids
     /\ hist[r].postFailed
     /\ ~rows[r].processed
     /\ rows[r].title # 0
     /\ rows[r].processingAttempts < MaxAttempts}

(***************************************************************************)
(* How the caller of the pipeline goes on once the pipeline has ended for  *)
(* the current item: `how` is "null" (processRecommendation returned       *)
(* null), "published" (markAsProcessed returned) or "throw" (createForum-  *)
(* Post or markAsProcessed threw).                                         *)
(***************************************************************************)
\* a handler without its catch block: what createForumPost or
\* markAsProcessed throws leaves the handler as a rejected promise
LiveReturn_Rethrow(p, how) ==
  /\ proc' = [proc EXCEPT ![p] =
                [IdleProc EXCEPT !.pc = IF how = "throw" THEN "rejected" ELSE "done",
                   !.item = proc[p].item,
                   !.saw = proc[p].saw,
                   !.signal = IF how = "published" THEN "success" ELSE "none"]]
  /\ UNCHANGED bf

\* handleRecommendationMessage
LiveReturn(p, how) ==
  /\ proc' = [proc EXCEPT ![p] =
                [IdleProc EXCEPT !.pc = "done", !.item = proc[p].item,
                   !.saw = proc[p].saw,
                   !.signal = CASE how = "null" -> "none"
                                [] how = "published" -> "success"
                                [] OTHER -> "failure"]]
  /\ UNCHANGED bf

\* a loop without the try/catch around processHistoricalMessage: the first
\* error ends the batch
BackfillReturn_Abort(p, how) ==
  LET res == IF how = "throw"
             THEN [bf.result EXCEPT !.errors = @ + 1]
             ELSE [bf.result EXCEPT !.processed = @ + 1]
      rest == IF how = "throw" THEN <<>> ELSE Tail(bf.queue)
  IN /\ bf' = [bf EXCEPT !.result = res, !.queue = rest]
     /\ proc' = IF rest = <<>>
                THEN [proc EXCEPT ![p] = [IdleProc EXCEPT !.pc = "done",
                                                         !.saw = proc[p].saw]]
                ELSE [proc EXCEPT ![p] = [IdleProc EXCEPT !.pc = "findByMessageId",
                                                   !.item = MessageItem(Head(rest)),
                                                   !.saw = proc[p].saw]]

\* the for loop of backfillMissedRecommendations around processHistoricalMessage
BackfillReturn(p, how) ==
  LET res == IF how = "throw"
             THEN [bf.result EXCEPT !.errors = @ + 1]
             ELSE [bf.result EXCEPT !.processed = @ + 1]
      rest == Tail(bf.queue)
  IN /\ bf' = [bf EXCEPT !.result = res, !.queue = rest]
     /\ proc' = IF rest = <<>>
                THEN [proc EXCEPT ![p] = [IdleProc EXCEPT !.pc = "done",
                                                         !.saw = proc[p].saw]]
                ELSE [proc EXCEPT ![p] = [IdleProc EXCEPT !.pc = "findByMessageId",
                                                   !.item = MessageItem(Head(rest)),
                                                   !.saw = proc[p].saw]]

\* a caller of the Store API gets its promise resolved
CallerReturn(p) ==
  /\ proc' = [proc EXCEPT ![p] = IdleProc]
  /\ UNCHANGED bf

Return(p, how) ==
  CASE p.k = "backfill" -> BackfillReturn(p, how)
    [] p.k = "caller" -> CallerReturn(p)
    [] OTHER -> LiveReturn(p, how)

(***************************************************************************)
(* The recommendations channel and the gateway.                            *)
(***************************************************************************)
MessageInputs ==
  { [url |-> UrlA, bot |-> FALSE], [url |-> Null, bot |-> FALSE],
    [url |-> UrlA, bot |-> TRUE] }

\* somebody posts a message in the channel
PostMessage ==
  /\ Len(channel) < NumMsgs
  /\ \E m \in MessageInputs :
       channel' = Append(channel, [url |-> m.url, bot |-> m.bot, createdAt |-> clock])
  /\ clock' = clock + 1
  /\ UNCHANGED <<rows, forum, proc, bf, bulk, boots, unprocessed, calls, hist, abandoned, mig,
                 conversation>>

\* client.on(MessageCreate) -> handleRecommendationMessage -> processRecommendation
\* up to its first await; a message may be delivered more than once
MessageCreate(p, n) ==
  /\ p \in LiveProcs
  /\ proc[p].pc \in {"idle", "done"}
  /\ n \in DOMAIN channel
  /\ ~channel[n].bot
  /\ proc' = [proc EXCEPT ![p] =
       IF channel[n].url = Null
       THEN [IdleProc EXCEPT !.pc = "done", !.item = MessageItem(n)]
       ELSE [IdleProc EXCEPT !.pc = "findByMessageId", !.item = MessageItem(n),
                             !.saw = RetryableFailed({MessageId(n)})]]
  /\ UNCHANGED <<clock, channel, rows, forum, bf, bulk, boots, unprocessed, calls,
                 hist, abandoned, mig, conversation>>

(***************************************************************************)
(* processRecommendation (live handler and backfill).                      *)
(***************************************************************************)
\* a pre-check that takes a stored row up again instead of skipping it
FindByMessageId_Reprocess(p) ==
  /\ p \in BotProcs
  /\ At(p, "findByMessageId")
  /\ proc' = IF findByMessageId(rows, proc[p].item.id) # 0
             THEN [proc EXCEPT ![p].pc = "extract",
                               ![p].rid = findByMessageId(rows, proc[p].item.id)]
             ELSE Goto(p, "create")
  /\ UNCHANGED <<clock, channel, rows, forum, bf, bulk, boots, unprocessed, calls, hist,
                 abandoned, mig, conversation>>

FindByMessageId(p) ==
  /\ p \in BotProcs
  /\ At(p, "findByMessageId")
  /\ IF findByMessageId(rows, proc[p].item.id) # 0
     THEN Return(p, "null")
     ELSE proc' = Goto(p, "create") /\ UNCHANGED bf
  /\ UNCHANGED <<clock, channel, rows, forum, bulk, boots, unprocessed, calls, hist,
                 abandoned, mig, conversation>>

Create(p) ==
  /\ p \in BotProcs
  /\ At(p, "create")
  /\ LET res == create(rows, [originalMessageId |-> proc[p].item.id,
                              url |-> proc[p].item.url])
     IN /\ rows' = res.rows
        /\ IF res.ok
           THEN /\ hist' = Append(hist, NewHist)
                /\ proc' = [proc EXCEPT ![p].pc = "extract", ![p].rid = Len(res.rows)]
                /\ UNCHANGED bf
           ELSE /\ Return(p, "null")
                /\ UNCHANGED hist
  /\ UNCHANGED <<clock, channel, forum, bulk, boots, unprocessed, calls, abandoned, mig,
                 conversation>>

(***************************************************************************)
(* ContentExtractor.extract: the URL is normalised, routed to the first    *)
(* extractor whose rule it satisfies, and that extractor is awaited inside *)
(* one try block.  A URL is given by the set of rules it satisfies.        *)
(***************************************************************************)
\* what the awaited extractor does: it returns, or throws one of these
ExtractOutcomes == {"ok", "ContentExtractionError", "Error"}

\* the rules in the order in which extract tests them
Rules == <<"youtube", "audiobook", "podcast", "article">>
UrlMatches == SUBSET {Rules[i] : i \in DOMAIN Rules}

\* the extractor extract hands the URL to; `matched` is FALSE on the
\* fallback for URLs of unknown type
Route(matches) ==
  IF \E i \in DOMAIN Rules : Rules[i] \in matches
  THEN [extractor |-> Rules[CHOOSE i \in DOMAIN Rules :
                              /\ Rules[i] \in matches
                              /\ \A j \in 1..(i - 1) : Rules[j] \notin matches],
        matched |-> TRUE]
  ELSE [extractor |-> "article", matched |-> FALSE]

\* a catch block that lets every error through as it is
extractCatch_Rethrow(error) == [name |-> error, cause |-> Null]

\* the catch block of extract: a ContentExtractionError is rethrown, any
\* other error is wrapped into a new ContentExtractionError
extractCatch(error) ==
  IF error = "ContentExtractionError"
  THEN [name |-> "ContentExtractionError", cause |-> Null]
  ELSE [name |-> "ContentExtractionError", cause |-> error]

\* what a caller of extract observes for an outcome of the extractor
extract(outcome) == IF outcome = "ok" THEN "ok" ELSE extractCatch(outcome).name

CallExtract ==
  /\ At(Coordinator, "idle")
  /\ Len(proc[Coordinator].log) < MaxExtracts
  /\ \E m \in UrlMatches :
       proc' = [proc EXCEPT ![Coordinator].pc = "extractor",
                            ![Coordinator].matches = m,
                            ![Coordinator].invoked = <<Route(m).extractor>>]
  /\ UNCHANGED <<clock, channel, rows, forum, bf, bulk, mig, boots, unprocessed, calls,
                 hist, abandoned, conversation>>

\* the awaited extractor returns or throws; extract returns or throws in turn
ExtractorReturns ==
  /\ At(Coordinator, "extractor")
  /\ \E o \in ExtractOutcomes :
       LET c == proc[Coordinator]
       IN proc' = [proc EXCEPT ![Coordinator].pc = "idle",
                     ![Coordinator].matches = {},
                     ![Coordinator].invoked = <<>>,
                     ![Coordinator].log = Append(@,
                       [matches |-> c.matches, invoked |-> c.invoked, thrown |-> o,
                        result |-> IF o = "ok" THEN [name |-> "ok", cause |-> Null]
                                   ELSE extractCatch(o)])]
  /\ UNCHANGED <<clock, channel, rows, forum, bf, bulk, mig, boots, unprocessed, calls,
                 hist, abandoned, conversation>>

NextExtract == CallExtract \/ ExtractorReturns

\* an extraction failure that ends the pipeline instead of falling back
Extract_Abort(p) ==
  /\ p \in BotProcs
  /\ At(p, "extract")
  /\ \E o \in ExtractOutcomes :
       proc' = IF extract(o) = "ok"
               THEN [proc EXCEPT ![p].pc = "analyzeExtractedContent",
                                 ![p].extractedContent = TRUE]
               ELSE [proc EXCEPT ![p].pc = "recordError", ![p].err = ErrOther]
  /\ hist' = [hist EXCEPT ![proc[p].rid].runs = @ + 1]
  /\ UNCHANGED <<clock, channel, rows, forum, bf, bulk, boots, unprocessed, calls,
                 abandoned, mig, conversation>>

Extract(p) ==
  /\ p \in BotProcs
  /\ At(p, "extract")
  /\ \E o \in ExtractOutcomes :
       proc' = CASE extract(o) = "ok" ->
                      [proc EXCEPT ![p].pc = "analyzeExtractedContent",
                                   ![p].extractedContent = TRUE]
                 [] extract(o) = "ContentExtractionError" ->
                      Goto(p, "analyzeRecommendation")
                 [] OTHER -> [proc EXCEPT ![p].pc = "recordError", ![p].err = ErrOther]
  /\ hist' = [hist EXCEPT ![proc[p].rid].runs = @ + 1]
  /\ UNCHANGED <<clock, channel, rows, forum, bf, bulk, boots, unprocessed, calls,
                 abandoned, mig, conversation>>

\* a synthesis failure that is swallowed: the pipeline goes on with no result
Analyze_Swallow(p, at) ==
  /\ p \in BotProcs
  /\ At(p, at)
  /\ \/ \E res \in AnalysisResults :
          proc' = [proc EXCEPT ![p].pc = "updateMetadata", ![p].md = res]
     \/ proc' = [proc EXCEPT ![p].pc = "createForumPost"]
  /\ UNCHANGED <<clock, channel, rows, forum, bf, bulk, boots, unprocessed, calls,
                 hist, abandoned, mig, conversation>>

Analyze(p, at) ==
  /\ p \in BotProcs
  /\ At(p, at)
  /\ \/ \E res \in AnalysisResults :
          proc' = [proc EXCEPT ![p].pc = "updateMetadata", ![p].md = res]
     \/ proc' = [proc EXCEPT ![p].pc = "recordError", ![p].err = ErrSynthesis]
  /\ UNCHANGED <<clock, channel, rows, forum, bf, bulk, boots, unprocessed, calls,
                 hist, abandoned, mig, conversation>>

AnalyzeExtractedContent(p) == Analyze(p, "analyzeExtractedContent")
AnalyzeRecommendation(p) == Analyze(p, "analyzeRecommendation")

UpdateMetadata(p) ==
  /\ p \in BotProcs
  /\ At(p, "updateMetadata")
  /\ rows' = updateMetadata(rows, proc[p].rid, [title |-> proc[p].md.title])
  /\ proc' = Goto(p, "createForumPost")
  /\ UNCHANGED <<clock, channel, forum, bf, bulk, boots, unprocessed, calls, hist,
                 abandoned, mig, conversation>>

RecordErrorFind(p) ==
  /\ p \in BotProcs \cup Callers
  /\ At(p, "recordError")
  /\ proc' = [proc EXCEPT ![p].pc = "recordErrorUpdate",
                          ![p].current = rows[proc[p].rid].processingAttempts]
  /\ UNCHANGED <<clock, channel, rows, forum, bf, bulk, boots, unprocessed, calls,
                 hist, abandoned, mig, conversation>>

RecordErrorUpdate(p) ==
  /\ p \in BotProcs \cup Callers
  /\ At(p, "recordErrorUpdate")
  /\ rows' = recordErrorUpdate(rows, proc[p].rid, proc[p].err, proc[p].current)
  /\ hist' = [hist EXCEPT ![proc[p].rid].errCalls = @ + 1]
  /\ Return(p, "null")
  /\ UNCHANGED <<clock, channel, forum, bulk, boots, unprocessed, calls, abandoned, mig,
                 conversation>>

(***************************************************************************)
(* Publication: createForumPost, then markAsProcessed.                     *)
(***************************************************************************)
\* post creation retried in place after a failure
CreateForumPost_Retry(p) ==
  /\ p \in BotProcs
  /\ At(p, "createForumPost")
  /\ \/ /\ forum' = Append(forum, [rid |-> proc[p].rid])
        /\ proc' = [proc EXCEPT ![p].pc = "markAsProcessed", ![p].postId = Len(forum) + 1]
        /\ hist' = [hist EXCEPT ![proc[p].rid].postCalls = @ + 1]
     \/ /\ hist[proc[p].rid].postCalls < 2
        /\ hist' = [hist EXCEPT ![proc[p].rid].postCalls = @ + 1,
                                ![proc[p].rid].postFailed = TRUE]
        /\ UNCHANGED <<forum, proc>>
  /\ UNCHANGED <<clock, channel, rows, bf, bulk, boots, unprocessed, calls, abandoned, mig,
                 conversation>>

\* a failed post creation that is swallowed, so that the caller goes on
CreateForumPost_Swallow(p) ==
  /\ p \in BotProcs
  /\ At(p, "createForumPost")
  /\ \/ /\ forum' = Append(forum, [rid |-> proc[p].rid])
        /\ hist' = [hist EXCEPT ![proc[p].rid].postCalls = @ + 1]
        /\ proc' = [proc EXCEPT ![p].pc = "markAsProcessed", ![p].postId = Len(forum) + 1]
     \/ /\ hist' = [hist EXCEPT ![proc[p].rid].postCalls = @ + 1,
                                ![proc[p].rid].postFailed = TRUE]
        /\ proc' = Goto(p, "markAsProcessed")
        /\ UNCHANGED forum
  /\ UNCHANGED <<clock, channel, rows, bf, bulk, boots, unprocessed, calls, abandoned, mig,
                 conversation>>

CreateForumPost(p) ==
  /\ p \in BotProcs
  /\ At(p, "createForumPost")
  /\ \/ /\ forum' = Append(forum, [rid |-> proc[p].rid])
        /\ hist' = [hist EXCEPT ![proc[p].rid].postCalls = @ + 1]
        /\ proc' = [proc EXCEPT ![p].pc = "markAsProcessed", ![p].postId = Len(forum) + 1]
        /\ UNCHANGED bf
     \/ /\ hist' = [hist EXCEPT ![proc[p].rid].postCalls = @ + 1,
                                ![proc[p].rid].postFailed = TRUE]
        /\ Return(p, "throw")
        /\ UNCHANGED forum
  /\ UNCHANGED <<clock, channel, rows, bulk, boots, unprocessed, calls, abandoned, mig,
                 conversation>>

MarkAsProcessed(p) ==
  /\ p \in BotProcs
  /\ At(p, "markAsProcessed")
  /\ rows' = markAsProcessed(rows, proc[p].rid, proc[p].postId, proc[p].postId, clock)
  /\ clock' = clock + 1
  /\ Return(p, "published")
  /\ UNCHANGED <<channel, forum, bulk, boots, unprocessed, calls, hist, abandoned, mig,
                 conversation>>

(***************************************************************************)
(* Startup backfill.                                                       *)
(***************************************************************************)
\* client.once(ClientReady): backfillMissedRecommendations is started
ClientReady ==
  /\ At(Backfill, "idle")
  /\ proc' = [proc EXCEPT ![Backfill] =
                [IdleProc EXCEPT !.pc = "getLastProcessedTimestamp",
                   !.saw = RetryableFailed({MessageId(n) : n \in DOMAIN channel})]]
  /\ bf' = IdleBackfill
  /\ UNCHANGED <<clock, channel, rows, forum, bulk, boots, unprocessed, calls, hist,
                 abandoned, mig, conversation>>

GetLastProcessedTimestamp ==
  /\ At(Backfill, "getLastProcessedTimestamp")
  /\ bf' = [bf EXCEPT !.lastProcessedAt = getLastProcessedTimestamp(rows)]
  /\ proc' = Goto(Backfill, "fetchChannelMessagesAfter")
  /\ UNCHANGED <<clock, channel, rows, forum, bulk, boots, unprocessed, calls, hist,
                 abandoned, mig, conversation>>

\* the channel of the model holds fewer messages than one batch (100), so the
\* first batch is the whole history and the loop ends after it
fetchChannelMessagesAfter(ch, afterDate) ==
  Filter(Ids(ch), [n \in DOMAIN ch |-> afterDate = 0 \/ ch[n].createdAt > afterDate])

(***************************************************************************)
(* The loop of fetchChannelMessagesAfter, one awaited channel.messages     *)
(* .fetch per step.  A message's id is its position in the channel, and    *)
(* the platform returns a batch newest first.                              *)
(***************************************************************************)
Min(a, b) == IF a < b THEN a ELSE b

Reverse(s) == [i \in 1..Len(s) |-> s[Len(s) + 1 - i]]

\* channel.messages.fetch({ limit, before }): ids of the newest `limit`
\* messages older than `before` (0: no cursor), newest first
messagesFetch(ch, limit, before) ==
  LET hi == IF before = 0 THEN Len(ch) ELSE before - 1
      n == Min(limit, hi)
  IN [i \in 1..n |-> hi + 1 - i]

\* a date filter that also keeps the messages created at afterDate
filteredBatch_Gte(ch, messageBatch, afterDate) ==
  IF afterDate # 0
  THEN Filter(messageBatch, [n \in DOMAIN ch |-> ch[n].createdAt >= afterDate])
  ELSE messageBatch

\* messageBatch.filter((m) => m.createdAt > afterDate), or the whole batch
\* when no date is given
filteredBatch(ch, messageBatch, afterDate) ==
  IF afterDate # 0
  THEN Filter(messageBatch, [n \in DOMAIN ch |-> ch[n].createdAt > afterDate])
  ELSE messageBatch

\* one iteration of the while loop; it is entered only while fewer than
\* maxMessages messages are collected
FetchBatch ==
  /\ At(Backfill, "fetchBatch")
  /\ LET maxMessages == SafetyLimit
         afterDate == bf.lastProcessedAt
         remainingSlots == maxMessages - Len(bf.allMessages)
         fetchLimit == Min(BatchLimit, remainingSlots)
         messageBatch == messagesFetch(channel, fetchLimit, bf.lastMessageId)
         collected == bf.allMessages \o filteredBatch(channel, messageBatch, afterDate)
         oldestInBatch == messageBatch[Len(messageBatch)]
         return(all) ==
           /\ bf' = [bf EXCEPT !.allMessages = all, !.fetches = @ + 1,
                               !.messages = Reverse(all)]
           /\ proc' = Goto(Backfill, "fetched")
     IN \/ return(bf.allMessages)               \* fetch throws: catch, break
        \/ IF messageBatch = <<>>
           THEN return(bf.allMessages)
           ELSE IF \/ Len(messageBatch) < fetchLimit
                   \/ afterDate # 0 /\ channel[oldestInBatch].createdAt <= afterDate
                   \/ Len(collected) >= maxMessages
                THEN return(collected)
                ELSE /\ bf' = [bf EXCEPT !.allMessages = collected, !.fetches = @ + 1,
                                         !.lastMessageId = oldestInBatch]
                     /\ UNCHANGED proc
  /\ UNCHANGED <<clock, channel, rows, forum, bulk, boots, unprocessed, calls, hist,
                 abandoned, mig, conversation>>

FetchChannelMessagesAfter ==
  /\ At(Backfill, "fetchChannelMessagesAfter")
  /\ LET messages == fetchChannelMessagesAfter(channel, bf.lastProcessedAt)
         messagesWithUrls ==
           Filter(messages, [n \in DOMAIN channel |->
                               channel[n].url # Null /\ ~channel[n].bot])
     IN IF messages = <<>>
        THEN /\ bf' = [bf EXCEPT !.messages = messages]
             /\ proc' = Goto(Backfill, "done")
        ELSE IF messagesWithUrls = <<>>
        THEN /\ bf' = [bf EXCEPT !.messages = messages,
                         !.result = [checked |-> Len(messages), processed |-> 0,
                                     skipped |-> Len(messages), errors |-> 0]]
             /\ proc' = Goto(Backfill, "done")
        ELSE /\ bf' = [bf EXCEPT !.messages = messages, !.queue = messagesWithUrls]
             /\ proc' = Goto(Backfill, "findExistingMessageIds")
  /\ UNCHANGED <<clock, channel, rows, forum, bulk, boots, unprocessed, calls, hist,
                 abandoned, mig, conversation>>

FindExistingMessageIds ==
  /\ At(Backfill, "findExistingMessageIds")
  /\ LET existingIds ==
           findExistingMessageIds(rows, {MessageId(bf.queue[i]) : i \in DOMAIN bf.queue})
         unprocessedMessages ==
           Filter(bf.queue, [n \in DOMAIN channel |-> MessageId(n) \notin existingIds])
         n0 == Len(bf.messages)
     IN IF unprocessedMessages = <<>>
        THEN /\ bf' = [bf EXCEPT !.queue = <<>>,
                         !.result = [checked |-> n0, processed |-> 0,
                                     skipped |-> n0, errors |-> 0]]
             /\ proc' = Goto(Backfill, "done")
        ELSE /\ bf' = [bf EXCEPT !.queue = unprocessedMessages,
                         !.result = [checked |-> n0, processed |-> 0,
                                     skipped |-> n0 - Len(unprocessedMessages),
                                     errors |-> 0]]
             /\ proc' = [proc EXCEPT ![Backfill].pc = "findByMessageId",
                           ![Backfill].item = MessageItem(Head(unprocessedMessages))]
  /\ UNCHANGED <<clock, channel, rows, forum, bulk, boots, unprocessed, calls, hist,
                 abandoned, mig, conversation>>

(***************************************************************************)
(* Shutdown (SIGINT/SIGTERM -> process.exit) and the next start of the bot:*)
(* every activity of the bot process is dropped where it stands.           *)
(***************************************************************************)
MidPipeline ==
  {proc[p].rid : p \in {q \in BotProcs : proc[q].rid # 0 /\ proc[q].pc # "done"}}

Shutdown ==
  /\ boots < MaxRestarts
  /\ boots' = boots + 1
  /\ abandoned' = abandoned \cup
       {[rid |-> r, runs |-> hist[r].runs] : r \in {x \in MidPipeline : ~rows[x].processed}}
  /\ proc' = [p \in Procs |-> IF p \in BotProcs THEN IdleProc ELSE proc[p]]
  /\ bf' = IdleBackfill
  /\ UNCHANGED <<clock, channel, rows, forum, bulk, unprocessed, calls, hist, mig,
                 conversation>>

(***************************************************************************)
(* Bulk import (scripts/bulk-import.ts), a process of its own that shares  *)
(* the database and the forum with the bot.                                *)
(***************************************************************************)
MaxBulkUrls == 2

\* contents of data/bulk-import.txt after readUrlsFromFile (trimmed,
\* non-empty, non-comment lines)
BulkFiles ==
  UNION {[1..n -> Urls] : n \in 1..MaxBulkUrls}

BulkItem(u) == [id |-> generateSyntheticMessageId(u), url |-> u, hasUrl |-> TRUE]

\* the for loop of runBulkImport around processUrl: `how` is "ok" or "throw"
BulkReturn(how) ==
  LET res == IF how = "throw"
             THEN [bulk.result EXCEPT !.failed = @ + 1]
             ELSE [bulk.result EXCEPT !.processed = @ + 1]
      rest == Tail(bulk.queue)
  IN /\ bulk' = [bulk EXCEPT !.result = res, !.queue = rest]
     /\ proc' = IF rest = <<>>
                THEN [proc EXCEPT ![Bulk] = [IdleProc EXCEPT !.pc = "done"]]
                ELSE [proc EXCEPT ![Bulk] = [IdleProc EXCEPT !.pc = "bulkCreate",
                                                      !.item = BulkItem(Head(rest))]]

RunBulkImport ==
  /\ proc[Bulk].pc = "idle"
  /\ \E urls \in BulkFiles :
       /\ bulk' = [IdleBulk EXCEPT !.urls = urls, !.result.total = Len(urls)]
       /\ proc' = [proc EXCEPT ![Bulk] =
                     [IdleProc EXCEPT !.pc = "bulkFindExistingMessageIds"]]
  /\ UNCHANGED <<clock, channel, rows, forum, bf, boots, unprocessed, calls, hist,
                 abandoned, mig, conversation>>

BulkFindExistingMessageIds ==
  /\ At(Bulk, "bulkFindExistingMessageIds")
  /\ bulk' = [bulk EXCEPT !.existingMessageIds =
       findExistingMessageIds(rows,
         {generateSyntheticMessageId(bulk.urls[i]) : i \in DOMAIN bulk.urls})]
  /\ proc' = Goto(Bulk, "bulkFindExistingUrls")
  /\ UNCHANGED <<clock, channel, rows, forum, bf, boots, unprocessed, calls, hist,
                 abandoned, mig, conversation>>

BulkFindExistingUrls ==
  /\ At(Bulk, "bulkFindExistingUrls")
  /\ LET existingUrls ==
           findExistingUrls(rows, {bulk.urls[i] : i \in DOMAIN bulk.urls})
         toProcess ==
           Filter(bulk.urls, [u \in Urls |->
             ~(generateSyntheticMessageId(u) \in bulk.existingMessageIds
               \/ u \in existingUrls)])
         skippedCount == Len(bulk.urls) - Len(toProcess)
     IN /\ bulk' = [bulk EXCEPT !.queue = toProcess,
                                !.result.skippedDuplicates = skippedCount]
        /\ proc' = IF toProcess = <<>>
                   THEN Goto(Bulk, "done")
                   ELSE [proc EXCEPT ![Bulk].pc = "bulkCreate",
                                     ![Bulk].item = BulkItem(Head(toProcess))]
  /\ UNCHANGED <<clock, channel, rows, forum, bf, boots, unprocessed, calls, hist,
                 abandoned, mig, conversation>>

\* processUrl started without await: the loop takes the next URL as soon as
\* the row is created
BulkCreate_NoAwait ==
  /\ At(Bulk, "bulkCreate")
  /\ LET res == create(rows, [originalMessageId |-> proc[Bulk].item.id,
                              url |-> proc[Bulk].item.url])
     IN /\ rows' = res.rows
        /\ hist' = IF res.ok THEN Append(hist, NewHist) ELSE hist
        /\ BulkReturn(IF res.ok THEN "ok" ELSE "throw")
  /\ UNCHANGED <<clock, channel, forum, bf, boots, unprocessed, calls, abandoned, mig,
                 conversation>>

\* processUrl
BulkCreate ==
  /\ At(Bulk, "bulkCreate")
  /\ LET res == create(rows, [originalMessageId |-> proc[Bulk].item.id,
                              url |-> proc[Bulk].item.url])
     IN /\ rows' = res.rows
        /\ IF res.ok
           THEN /\ hist' = Append(hist, NewHist)
                /\ proc' = [proc EXCEPT ![Bulk].pc = "bulkExtract",
                                        ![Bulk].rid = Len(res.rows)]
                /\ UNCHANGED bulk
           ELSE /\ BulkReturn("throw")
                /\ UNCHANGED hist
  /\ UNCHANGED <<clock, channel, forum, bf, boots, unprocessed, calls, abandoned, mig,
                 conversation>>

BulkExtract ==
  /\ At(Bulk, "bulkExtract")
  /\ \E o \in ExtractOutcomes :
       proc' = IF extract(o) = "ok" THEN Goto(Bulk, "bulkAnalyzeExtractedContent")
                                    ELSE Goto(Bulk, "bulkAnalyzeRecommendation")
  /\ hist' = [hist EXCEPT ![proc[Bulk].rid].runs = @ + 1]
  /\ UNCHANGED <<clock, channel, rows, forum, bf, bulk, boots, unprocessed, calls,
                 abandoned, mig, conversation>>

BulkAnalyzeExtractedContent ==
  /\ At(Bulk, "bulkAnalyzeExtractedContent")
  /\ \/ \E res \in AnalysisResults :
          proc' = [proc EXCEPT ![Bulk].pc = "bulkUpdateMetadata", ![Bulk].md = res]
     \/ proc' = Goto(Bulk, "bulkAnalyzeRecommendation")
  /\ UNCHANGED <<clock, channel, rows, forum, bf, bulk, boots, unprocessed, calls,
                 hist, abandoned, mig, conversation>>

BulkAnalyzeRecommendation ==
  /\ At(Bulk, "bulkAnalyzeRecommendation")
  /\ \/ /\ \E res \in AnalysisResults :
             proc' = [proc EXCEPT ![Bulk].pc = "bulkUpdateMetadata", ![Bulk].md = res]
        /\ UNCHANGED bulk
     \/ BulkReturn("throw")
  /\ UNCHANGED <<clock, channel, rows, forum, bf, boots, unprocessed, calls, hist,
                 abandoned, mig, conversation>>

BulkUpdateMetadata ==
  /\ At(Bulk, "bulkUpdateMetadata")
  /\ rows' = updateMetadata(rows, proc[Bulk].rid, [title |-> proc[Bulk].md.title])
  /\ proc' = Goto(Bulk, "bulkCreateForumPost")
  /\ UNCHANGED <<clock, channel, forum, bf, bulk, boots, unprocessed, calls, hist,
                 abandoned, mig, conversation>>

BulkCreateForumPost ==
  /\ At(Bulk, "bulkCreateForumPost")
  /\ \/ /\ forum' = Append(forum, [rid |-> proc[Bulk].rid])
        /\ hist' = [hist EXCEPT ![proc[Bulk].rid].postCalls = @ + 1]
        /\ proc' = [proc EXCEPT ![Bulk].pc = "bulkMarkAsProcessed",
                                ![Bulk].postId = Len(forum) + 1]
        /\ UNCHANGED bulk
     \/ /\ hist' = [hist EXCEPT ![proc[Bulk].rid].postCalls = @ + 1,
                                ![proc[Bulk].rid].postFailed = TRUE]
        /\ BulkReturn("throw")
        /\ UNCHANGED forum
  /\ UNCHANGED <<clock, channel, rows, bf, boots, unprocessed, calls, abandoned, mig,
                 conversation>>

BulkMarkAsProcessed ==
  /\ At(Bulk, "bulkMarkAsProcessed")
  /\ rows' = markAsProcessed(rows, proc[Bulk].rid, proc[Bulk].postId,
                             proc[Bulk].postId, clock)
  /\ clock' = clock + 1
  /\ BulkReturn("ok")
  /\ UNCHANGED <<channel, forum, bf, boots, unprocessed, calls, hist, abandoned, mig,
                 conversation>>

BulkImport ==
  \/ RunBulkImport
  \/ BulkFindExistingMessageIds
  \/ BulkFindExistingUrls
  \/ BulkCreate
  \/ BulkExtract
  \/ BulkAnalyzeExtractedContent
  \/ BulkAnalyzeRecommendation
  \/ BulkUpdateMetadata
  \/ BulkCreateForumPost
  \/ BulkMarkAsProcessed

Pipeline(p) ==
  \/ FindByMessageId(p)
  \/ Create(p)
  \/ Extract(p)
  \/ AnalyzeExtractedContent(p)
  \/ AnalyzeRecommendation(p)
  \/ UpdateMetadata(p)
  \/ RecordErrorFind(p)
  \/ RecordErrorUpdate(p)
  \/ CreateForumPost(p)
  \/ MarkAsProcessed(p)

Next ==
  \/ PostMessage
  \/ \E p \in LiveProcs, n \in 1..NumMsgs : MessageCreate(p, n)
  \/ \E p \in BotProcs : Pipeline(p)
  \/ ClientReady
  \/ GetLastProcessedTimestamp
  \/ FetchChannelMessagesAfter
  \/ FindExistingMessageIds
  \/ Shutdown

\* The bot process: channel traffic, live handling, startup backfill, restarts.
Spec == Init /\ [][Next]_vars

(***************************************************************************)
(* The three entry points together: live handling and startup backfill of  *)
(* a channel that already holds one recommendation message, and a bulk     *)
(* import running beside the bot.                                          *)
(***************************************************************************)
InitAll ==
  /\ clock = 2
  /\ channel = <<[url |-> UrlA, bot |-> FALSE, createdAt |-> 1]>>
  /\ rows = <<>>
  /\ forum = <<>>
  /\ proc = [p \in Procs |-> IdleProc]
  /\ bf = IdleBackfill
  /\ bulk = IdleBulk
  /\ mig = IdleMigrate
  /\ boots = 0
  /\ unprocessed = [limit |-> 0, ids |-> <<>>]
  /\ calls = 0
  /\ hist = <<>>
  /\ abandoned = {}
  /\ conversation = <<>>

NextAll ==
  \/ \E p \in LiveProcs : MessageCreate(p, 1)
  \/ \E p \in BotProcs : Pipeline(p)
  \/ ClientReady
  \/ GetLastProcessedTimestamp
  \/ FetchChannelMessagesAfter
  \/ FindExistingMessageIds
  \/ BulkImport

SpecAll == InitAll /\ [][NextAll]_vars

(***************************************************************************)
(* The two batch runs side by side: the startup backfill of a channel that *)
(* holds NumMsgs recommendation messages nobody handled, and a bulk import.*)
(***************************************************************************)
InitBatch ==
  /\ clock = NumMsgs + 1
  /\ channel = [n \in 1..NumMsgs |-> [url |-> UrlA, bot |-> FALSE, createdAt |-> n]]
  /\ rows = <<>>
  /\ forum = <<>>
  /\ proc = [p \in Procs |-> IdleProc]
  /\ bf = IdleBackfill
  /\ bulk = IdleBulk
  /\ mig = IdleMigrate
  /\ boots = 0
  /\ unprocessed = [limit |-> 0, ids |-> <<>>]
  /\ calls = 0
  /\ hist = <<>>
  /\ abandoned = {}
  /\ conversation = <<>>

NextBatch ==
  \/ Pipeline(Backfill)
  \/ ClientReady
  \/ GetLastProcessedTimestamp
  \/ FetchChannelMessagesAfter
  \/ FindExistingMessageIds
  \/ BulkImport

SpecBatch == InitBatch /\ [][NextBatch]_vars

(***************************************************************************)
(* migrateToMultiLibrary: the tool that re-classifies the rows that have   *)
(* no library yet and posts them in the library forums (run without        *)
(* --dry-run).                                                             *)
(***************************************************************************)
\* end of one iteration of `for (const rec of recommendations)`
MigrateNext(how) ==
  LET rest == Tail(mig.queue)
  IN /\ mig' = [queue |-> rest,
                processed |-> mig.processed + (IF how = "ok" THEN 1 ELSE 0),
                errors |-> mig.errors + (IF how = "ok" THEN 0 ELSE 1)]
     /\ proc' = IF rest = <<>>
                THEN [proc EXCEPT ![Migrate] = [IdleProc EXCEPT !.pc = "done"]]
                ELSE [proc EXCEPT ![Migrate] = [IdleProc EXCEPT !.pc = "migrateExtract",
                                                         !.rid = Head(rest)]]

MigrateToMultiLibrary ==
  /\ At(Migrate, "idle")
  /\ LET recommendations ==
           Filter(Ids(rows), [r \in DOMAIN rows |-> rows[r].libraryType = Null])
     IN /\ mig' = [IdleMigrate EXCEPT !.queue = recommendations]
        /\ proc' = IF recommendations = <<>>
                   THEN Goto(Migrate, "done")
                   ELSE [proc EXCEPT ![Migrate].pc = "migrateExtract",
                                     ![Migrate].rid = Head(recommendations)]
  /\ UNCHANGED <<clock, channel, rows, forum, bf, bulk, boots, unprocessed, calls, hist,
                 abandoned, conversation>>

MigrateExtract ==
  /\ At(Migrate, "migrateExtract")
  /\ \E o \in ExtractOutcomes :
       CASE extract(o) = "ok" ->
                        proc' = Goto(Migrate, "migrateAnalyzeExtractedContent")
                        /\ UNCHANGED mig
         [] extract(o) = "ContentExtractionError" ->
                        proc' = Goto(Migrate, "migrateAnalyzeRecommendation")
                        /\ UNCHANGED mig
         [] OTHER -> MigrateNext("error")
  /\ UNCHANGED <<clock, channel, rows, forum, bf, bulk, boots, unprocessed, calls, hist,
                 abandoned, conversation>>

MigrateAnalyze(at) ==
  /\ At(Migrate, at)
  /\ \/ /\ \E res \in AnalysisResults :
             proc' = [proc EXCEPT ![Migrate].pc = "migrateUpdate", ![Migrate].md = res]
        /\ UNCHANGED mig
     \/ MigrateNext("error")
  /\ UNCHANGED <<clock, channel, rows, forum, bf, bulk, boots, unprocessed, calls, hist,
                 abandoned, conversation>>

MigrateAnalyzeExtractedContent == MigrateAnalyze("migrateAnalyzeExtractedContent")
MigrateAnalyzeRecommendation == MigrateAnalyze("migrateAnalyzeRecommendation")

MigrateUpdate ==
  /\ At(Migrate, "migrateUpdate")
  /\ rows' = Update(rows, proc[Migrate].rid,
                    [libraryType |-> proc[Migrate].md.libraryType,
                     primaryTag |-> proc[Migrate].md.primaryTag,
                     secondaryTags |-> proc[Migrate].md.secondaryTags,
                     title |-> proc[Migrate].md.title])
  /\ proc' = Goto(Migrate, "migrateCreateForumPost")
  /\ UNCHANGED <<clock, channel, forum, bf, bulk, mig, boots, unprocessed, calls, hist,
                 abandoned, conversation>>

MigrateCreateForumPost ==
  /\ At(Migrate, "migrateCreateForumPost")
  /\ \/ /\ forum' = Append(forum, [rid |-> proc[Migrate].rid])
        /\ hist' = [hist EXCEPT ![proc[Migrate].rid].postCalls = @ + 1]
        /\ proc' = [proc EXCEPT ![Migrate].pc = "migrateUpdatePost",
                                ![Migrate].postId = Len(forum) + 1]
        /\ UNCHANGED mig
     \/ /\ hist' = [hist EXCEPT ![proc[Migrate].rid].postCalls = @ + 1,
                                ![proc[Migrate].rid].postFailed = TRUE]
        /\ MigrateNext("ok")
        /\ UNCHANGED forum
  /\ UNCHANGED <<clock, channel, rows, bf, bulk, boots, unprocessed, calls, abandoned,
                 conversation>>

MigrateUpdatePost ==
  /\ At(Migrate, "migrateUpdatePost")
  /\ rows' = Update(rows, proc[Migrate].rid,
                    [forumPostId |-> proc[Migrate].postId,
                     forumThreadId |-> proc[Migrate].postId])
  /\ MigrateNext("ok")
  /\ UNCHANGED <<clock, channel, forum, bf, bulk, boots, unprocessed, calls, hist,
                 abandoned, conversation>>

Migration ==
  \/ MigrateToMultiLibrary
  \/ MigrateExtract
  \/ MigrateAnalyzeExtractedContent
  \/ MigrateAnalyzeRecommendation
  \/ MigrateUpdate
  \/ MigrateCreateForumPost
  \/ MigrateUpdatePost

(***************************************************************************)
(* Classification and posting of one row in detail: the text the language  *)
(* model answers with is any text, parsed as analyzeExtractedContent       *)
(* parses it; the classification is stored as migrateToMultiLibrary stores *)
(* it; createForumPost resolves the tags one findMatchingTag call per      *)
(* step.                                                                   *)
(***************************************************************************)
MaxSecondary == 2   \* secondary tags a completion may name, the long list apart

\* tag labels a completion may name: labels of the library, a label in other
\* words, and a label of another library
Suggestions == {"History", "Art History", "Academic", "Essay/Paper", "Art", "Fantasy"}

\* a completion that names more secondary tags than a post may carry
ManyTags ==
  <<"History", "Art History", "Academic", "Essay/Paper", "Philosophy", "Psychology",
    "Anthropology">>

SecondaryLists ==
  UNION {[1..n -> Suggestions] : n \in 0..MaxSecondary} \cup {ManyTags}

\* what the language model may answer: text without a JSON object, or text
\* holding an object with any classification
Completions ==
  {[json |-> FALSE, object |-> NoMetadata]} \cup
  {[json |-> TRUE,
    object |-> [title |-> 1, libraryType |-> l, primaryTag |-> t, secondaryTags |-> s]] :
     l \in {"athenaeum", "fiction"}, t \in Suggestions, s \in SecondaryLists}

\* content.text.match(/\{[\s\S]*\}/), then JSON.parse of the match: the
\* object of the text is returned as it is
parseCompletion(text) ==
  IF text.json THEN [ok |-> TRUE, metadata |-> text.object]
               ELSE [ok |-> FALSE, metadata |-> NoMetadata]

MigrateAnalyzeCompletion ==
  /\ At(Migrate, "migrateAnalyzeExtractedContent")
  /\ \E text \in Completions :
       LET res == parseCompletion(text)
       IN IF res.ok
          THEN /\ proc' = [proc EXCEPT ![Migrate].pc = "migrateUpdate",
                                       ![Migrate].md = res.metadata]
               /\ UNCHANGED mig
          ELSE MigrateNext("error")
  /\ UNCHANGED <<clock, channel, rows, forum, bf, bulk, boots, unprocessed, calls, hist,
                 abandoned, conversation>>

\* forumChannel.availableTags of a library forum: the tags of the library's
\* configuration under their labels, and one tag of the guild's own
ForumTags(libraryType) ==
  [i \in DOMAIN LIBRARY_TAGS[libraryType] |->
     [name |-> LIBRARY_TAGS[libraryType][i].name, id |-> i]]
  \o <<[name |-> "General", id |-> Len(LIBRARY_TAGS[libraryType]) + 1]>>

\* the orders and selections in which a forum may hold its tags
AvailableTagLists(libraryType) ==
  LET all == ForumTags(libraryType)
  IN {all, [i \in DOMAIN all |-> all[Len(all) + 1 - i]]} \cup
     ({<<all[i], all[j]>> : i, j \in DOMAIN all} \ {<<all[i], all[i]>> : i \in DOMAIN all})

\* createForumPost up to the tag resolution: the library forum is fetched
ChannelsFetch ==
  /\ At(Migrate, "migrateCreateForumPost")
  /\ \/ /\ \E availableTags \in AvailableTagLists(proc[Migrate].md.libraryType) :
             proc' = [proc EXCEPT ![Migrate].pc = "primaryTag",
                        ![Migrate].tagging = [NoTagging EXCEPT !.availableTags = availableTags]]
        /\ UNCHANGED <<mig, hist>>
     \/ /\ hist' = [hist EXCEPT ![proc[Migrate].rid].postCalls = @ + 1,
                                ![proc[Migrate].rid].postFailed = TRUE]
        /\ MigrateNext("ok")
  /\ UNCHANGED <<clock, channel, rows, forum, bf, bulk, boots, unprocessed, calls,
                 abandoned, conversation>>

AddPrimaryTag ==
  /\ At(Migrate, "primaryTag")
  /\ LET t == proc[Migrate].tagging
         primaryTagMatch ==
           findMatchingTag(proc[Migrate].md.primaryTag, proc[Migrate].md.libraryType,
                           t.availableTags, t.appliedTags)
     IN proc' = [proc EXCEPT ![Migrate].pc = "secondaryTags",
                   ![Migrate].tagging =
                      [t EXCEPT !.appliedTags = IF primaryTagMatch # NoTag
                                                THEN Append(@, primaryTagMatch.id) ELSE @,
                                !.next = 1,
                                !.call = [topic |-> proc[Migrate].md.primaryTag,
                                          alreadyApplied |-> t.appliedTags,
                                          result |-> primaryTagMatch]]]
  /\ UNCHANGED <<clock, channel, rows, forum, bf, bulk, mig, boots, unprocessed, calls,
                 hist, abandoned, conversation>>

\* a loop without the check of the list's length
AddSecondaryTag_NoLimit ==
  /\ At(Migrate, "secondaryTags")
  /\ LET t == proc[Migrate].tagging
         secondaryTags == proc[Migrate].md.secondaryTags
         tagMatch == findMatchingTag(secondaryTags[t.next], proc[Migrate].md.libraryType,
                                     t.availableTags, t.appliedTags)
     IN IF t.next > Len(secondaryTags)
        THEN proc' = Goto(Migrate, "threadsCreate")
        ELSE proc' = [proc EXCEPT ![Migrate].tagging =
                        [t EXCEPT !.appliedTags =
                                     IF /\ tagMatch # NoTag
                                        /\ \A a \in DOMAIN @ : @[a] # tagMatch.id
                                     THEN Append(@, tagMatch.id) ELSE @,
                                  !.next = @ + 1,
                                  !.call = [topic |-> secondaryTags[t.next],
                                            alreadyApplied |-> t.appliedTags,
                                            result |-> tagMatch]]]
  /\ UNCHANGED <<clock, channel, rows, forum, bf, bulk, mig, boots, unprocessed, calls,
                 hist, abandoned, conversation>>

\* a loop that puts each secondary tag in front of the list
AddSecondaryTag_Unshift ==
  /\ At(Migrate, "secondaryTags")
  /\ LET t == proc[Migrate].tagging
         secondaryTags == proc[Migrate].md.secondaryTags
         tagMatch == findMatchingTag(secondaryTags[t.next], proc[Migrate].md.libraryType,
                                     t.availableTags, t.appliedTags)
     IN IF t.next > Len(secondaryTags) \/ Len(t.appliedTags) >= TagLimit
        THEN proc' = Goto(Migrate, "threadsCreate")
        ELSE proc' = [proc EXCEPT ![Migrate].tagging =
                        [t EXCEPT !.appliedTags =
                                     IF /\ tagMatch # NoTag
                                        /\ \A a \in DOMAIN @ : @[a] # tagMatch.id
                                     THEN <<tagMatch.id>> \o @ ELSE @,
                                  !.next = @ + 1,
                                  !.call = [topic |-> secondaryTags[t.next],
                                            alreadyApplied |-> t.appliedTags,
                                            result |-> tagMatch]]]
  /\ UNCHANGED <<clock, channel, rows, forum, bf, bulk, mig, boots, unprocessed, calls,
                 hist, abandoned, conversation>>

\* one iteration of `for (const secondaryTag of ...secondaryTags)`, or its end
AddSecondaryTag ==
  /\ At(Migrate, "secondaryTags")
  /\ LET t == proc[Migrate].tagging
         secondaryTags == proc[Migrate].md.secondaryTags
         tagMatch == findMatchingTag(secondaryTags[t.next], proc[Migrate].md.libraryType,
                                     t.availableTags, t.appliedTags)
     IN IF t.next > Len(secondaryTags) \/ Len(t.appliedTags) >= TagLimit
        THEN proc' = Goto(Migrate, "threadsCreate")
        ELSE proc' = [proc EXCEPT ![Migrate].tagging =
                        [t EXCEPT !.appliedTags =
                                     IF /\ tagMatch # NoTag
                                        /\ \A a \in DOMAIN @ : @[a] # tagMatch.id
                                     THEN Append(@, tagMatch.id) ELSE @,
                                  !.next = @ + 1,
                                  !.call = [topic |-> secondaryTags[t.next],
                                            alreadyApplied |-> t.appliedTags,
                                            result |-> tagMatch]]]
  /\ UNCHANGED <<clock, channel, rows, forum, bf, bulk, mig, boots, unprocessed, calls,
                 hist, abandoned, conversation>>

\* a row published before the libraries existed, taken up by the migration
InitPost ==
  /\ clock = 3
  /\ channel = <<[url |-> UrlA, bot |-> FALSE, createdAt |-> 1]>>
  /\ rows = <<[NewRow([originalMessageId |-> MessageId(1), url |-> UrlA])
                 EXCEPT !.title = 1, !.processed = TRUE, !.processedAt = 2,
                        !.forumPostId = 1, !.forumThreadId = 1]>>
  /\ forum = <<[rid |-> 1]>>
  /\ proc = [p \in Procs |->
               IF p = Migrate
               THEN [IdleProc EXCEPT !.pc = "migrateAnalyzeExtractedContent", !.rid = 1]
               ELSE IdleProc]
  /\ bf = IdleBackfill
  /\ bulk = IdleBulk
  /\ mig = [IdleMigrate EXCEPT !.queue = <<1>>]
  /\ boots = 0
  /\ unprocessed = [limit |-> 0, ids |-> <<>>]
  /\ calls = 0
  /\ hist = <<[NewHist EXCEPT !.postCalls = 1, !.runs = 1]>>
  /\ abandoned = {}
  /\ conversation = <<>>

NextPost ==
  \/ MigrateAnalyzeCompletion
  \/ MigrateUpdate
  \/ ChannelsFetch
  \/ AddPrimaryTag
  \/ AddSecondaryTag

SpecPost == InitPost /\ [][NextPost]_vars

(***************************************************************************)
(* Content extraction of one item in detail: the processor hands the URL   *)
(* to ContentExtractor.extract, which normalises it and routes it; the     *)
(* YouTube extractor is followed through its two awaited calls.  The row   *)
(* of the item exists and the handler stands before the extraction.        *)
(***************************************************************************)
MaxDetects == 2     \* classifier calls made on the URL before it is extracted

\* the processor calls contentExtractor.extract: normalizeUrl, the routing
\* chain and the synchronous head of the extractor, up to its first await
ContentExtract(p) ==
  /\ p \in BotProcs
  /\ At(p, "extract")
  /\ proc[p].content.url \in UrlInputs
  /\ LET Call(extractor, normalizedUrl, videoId) ==
           proc' = [proc EXCEPT
                      ![p].content.normalizedUrl = normalizedUrl,
                      ![p].invoked = <<extractor>>,
                      ![p].content.videoId = IF extractor = "youtube" THEN videoId ELSE <<>>,
                      ![p].pc = CASE extractor # "youtube" -> "extractor"
                                  [] videoId = <<>> -> "analyzeRecommendation"
                                  [] OTHER -> "getInfo"]
         RouteTo(normalizedUrl) ==
           Call(CASE isYouTubeUrl(normalizedUrl) -> "youtube"
                  [] isAudiobookUrl(normalizedUrl) -> "audiobook"
                  [] isPodcastUrl(normalizedUrl) -> "podcast"
                  [] isArticleUrl(normalizedUrl) -> "article"
                  [] OTHER -> "article",
                normalizedUrl, extractVideoId(normalizedUrl))
     IN RouteTo(normalizeUrl(proc[p].content.url))
  /\ hist' = [hist EXCEPT ![proc[p].rid].runs = @ + 1]
  /\ UNCHANGED <<clock, channel, rows, forum, bf, bulk, mig, boots, unprocessed, calls,
                 abandoned, conversation>>

\* await client.getInfo(videoId), the client being created already: it
\* throws, which extract turns into a ContentExtractionError, or it returns
\* the video's basic_info, where the title and the description may be empty
GetInfo(p) ==
  /\ p \in BotProcs
  /\ At(p, "getInfo")
  /\ \/ proc' = Goto(p, "analyzeRecommendation")
     \/ \E title \in {<<>>, <<"Title">>}, short_description \in {<<>>, <<"Description">>} :
          proc' = [proc EXCEPT ![p].pc = "getTranscript",
                     ![p].content.info = [title |-> title,
                                          short_description |-> short_description]]
  /\ UNCHANGED <<clock, channel, rows, forum, bf, bulk, mig, boots, unprocessed, calls,
                 hist, abandoned, conversation>>

\* a transcript step without its inner try/catch: what getTranscript throws
\* reaches the outer catch of extract
GetTranscript_Rethrow(p) ==
  /\ p \in BotProcs
  /\ At(p, "getTranscript")
  /\ \E t \in {[kind |-> "throws", initial_segments |-> <<>>],
               [kind |-> "segments", initial_segments |-> <<"one">>]} :
       proc' = IF t.kind = "throws"
               THEN [proc EXCEPT ![p].pc = "analyzeRecommendation",
                                 ![p].content.transcript = t]
               ELSE [proc EXCEPT ![p].pc = "analyzeExtractedContent",
                       ![p].extractedContent = TRUE,
                       ![p].content.transcript = t,
                       ![p].content.envelope =
                          [type |-> "youtube", content |-> t.initial_segments,
                           transcribed |-> FALSE]]
  /\ UNCHANGED <<clock, channel, rows, forum, bf, bulk, mig, boots, unprocessed, calls,
                 hist, abandoned, conversation>>

\* await info.getTranscript() and the rest of YouTubeExtractor.extract: the
\* call throws, or returns data without initial_segments, or returns the
\* segments, whose texts are joined with blanks; extract returns the
\* envelope and the processor goes on to analyzeExtractedContent
GetTranscript(p) ==
  /\ p \in BotProcs
  /\ At(p, "getTranscript")
  /\ \E t \in {[kind |-> "throws", initial_segments |-> <<>>],
               [kind |-> "unexpected", initial_segments |-> <<>>],
               [kind |-> "segments", initial_segments |-> <<>>],
               [kind |-> "segments", initial_segments |-> <<"one">>],
               [kind |-> "segments", initial_segments |-> <<"one", "two">>]} :
       LET info == proc[p].content.info
           joined == [i \in 1..(2 * Len(t.initial_segments) - 1) |->
                        IF i % 2 = 1 THEN t.initial_segments[(i + 1) \div 2] ELSE " "]
           fallback == IF info.short_description # <<>> THEN info.short_description
                       ELSE <<"Video: ">> \o info.title \o <<"\nChannel: ", "undefined",
                              "\nDescription not available.">>
           transcribed == FALSE
       IN proc' = [proc EXCEPT ![p].pc = "analyzeExtractedContent",
                     ![p].extractedContent = TRUE,
                     ![p].content.transcript = t,
                     ![p].content.envelope =
                        [type |-> "youtube",
                         content |-> IF t.kind = "segments" THEN joined ELSE fallback,
                         transcribed |-> transcribed]]
  /\ UNCHANGED <<clock, channel, rows, forum, bf, bulk, mig, boots, unprocessed, calls,
                 hist, abandoned, conversation>>

\* a call of one of the two classifiers on the URL of the item
DetectType(p) ==
  /\ p \in BotProcs
  /\ At(p, "extract")
  /\ Len(proc[p].content.detected) < MaxDetects
  /\ \E fn \in {"detectType", "detectContentType"} :
       proc' = [proc EXCEPT ![p].content.detected = Append(@,
                  [fn |-> fn,
                   category |-> IF fn = "detectType"
                                THEN detectType(proc[p].content.url)
                                ELSE detectContentType(proc[p].content.url)])]
  /\ UNCHANGED <<clock, channel, rows, forum, bf, bulk, mig, boots, unprocessed, calls,
                 hist, abandoned, conversation>>

InitContent ==
  /\ clock = 2
  /\ channel = <<[url |-> UrlA, bot |-> FALSE, createdAt |-> 1]>>
  /\ rows = <<NewRow([originalMessageId |-> MessageId(1), url |-> UrlA])>>
  /\ forum = <<>>
  /\ \E u \in UrlInputs :
       proc = [p \in Procs |->
                 IF p = [k |-> "live", i |-> 1]
                 THEN [IdleProc EXCEPT !.pc = "extract", !.rid = 1,
                         !.item = [id |-> MessageId(1), url |-> UrlA, hasUrl |-> TRUE],
                         !.content.url = u]
                 ELSE IdleProc]
  /\ bf = IdleBackfill
  /\ bulk = IdleBulk
  /\ mig = IdleMigrate
  /\ boots = 0
  /\ unprocessed = [limit |-> 0, ids |-> <<>>]
  /\ calls = 0
  /\ hist = <<NewHist>>
  /\ abandoned = {}
  /\ conversation = <<>>

NextContent ==
  \E p \in LiveProcs :
    \/ DetectType(p)
    \/ ContentExtract(p)
    \/ GetInfo(p)
    \/ GetTranscript(p)
    \/ AnalyzeExtractedContent(p)
    \/ AnalyzeRecommendation(p)

SpecContent == InitContent /\ [][NextContent]_vars

(***************************************************************************)
(* Conversations in the library threads (handleThreadMention): a mention   *)
(* of the bot in a thread is stored with the thread's next message number, *)
(* and so is the bot's reply.  Each delivered mention has a handler of its *)
(* own; the awaits between the two stores touch neither the table nor the  *)
(* handler's numbers and are taken together with the store before them.    *)
(***************************************************************************)
MaxMentions == 2    \* mentions of the bot delivered in the threads
NumThreads == 2     \* library threads in which the bot is mentioned

\* messageCreate in a thread, up to the handler's first awaits
ThreadMention(c) ==
  /\ c \in Callers
  /\ At(c, "idle")
  /\ calls < MaxMentions
  /\ calls' = calls + 1
  /\ \E t \in 1..NumThreads :
       proc' = [proc EXCEPT ![c].pc = "getNextMessageNumber",
                  ![c].item = [id |-> MessageId(calls + 1), url |-> Null, hasUrl |-> FALSE],
                  ![c].mention = [threadId |-> t, isBot |-> FALSE, messageNumber |-> 0]]
  /\ UNCHANGED <<clock, channel, rows, forum, bf, bulk, mig, boots, unprocessed, hist,
                 abandoned, conversation>>

\* await conversationService.getNextMessageNumber(message.channel.id)
GetNextMessageNumber(c) ==
  /\ c \in Callers
  /\ At(c, "getNextMessageNumber")
  /\ proc' = [proc EXCEPT ![c].pc = "storeMessage",
                ![c].mention.messageNumber =
                   getNextMessageNumber(conversation, proc[c].mention.threadId)]
  /\ UNCHANGED <<clock, channel, rows, forum, bf, bulk, mig, boots, unprocessed, calls,
                 hist, abandoned, conversation>>

\* await conversationService.storeMessage({...}): the user's message first,
\* then, after the reply was sent, the bot's message under its own id
StoreMessage(c) ==
  /\ c \in Callers
  /\ At(c, "storeMessage")
  /\ LET res == storeMessage(conversation,
                   [messageId |-> [kind |-> IF proc[c].mention.isBot THEN "reply" ELSE "msg",
                                   n |-> proc[c].item.id.n],
                    threadId |-> proc[c].mention.threadId,
                    isBot |-> proc[c].mention.isBot,
                    messageNumber |-> proc[c].mention.messageNumber])
     IN /\ conversation' = res.rows
        /\ proc' = IF res.ok /\ ~proc[c].mention.isBot
                   THEN [proc EXCEPT ![c].pc = "getNextMessageNumber",
                                     ![c].mention.isBot = TRUE]
                   ELSE [proc EXCEPT ![c] = IdleProc]
  /\ UNCHANGED <<clock, channel, rows, forum, bf, bulk, mig, boots, unprocessed, calls,
                 hist, abandoned>>

NextThread ==
  \E c \in Callers :
    \/ ThreadMention(c)
    \/ GetNextMessageNumber(c)
    \/ StoreMessage(c)

SpecThread == Init /\ [][NextThread]_vars

\* live handling and startup backfill of a channel that holds NumMsgs
\* recommendation messages, with the migration tool run beside the bot
InitTools ==
  /\ clock = NumMsgs + 1
  /\ channel = [n \in 1..NumMsgs |-> [url |-> UrlA, bot |-> FALSE, createdAt |-> n]]
  /\ rows = <<>>
  /\ forum = <<>>
  /\ proc = [p \in Procs |-> IdleProc]
  /\ bf = IdleBackfill
  /\ bulk = IdleBulk
  /\ mig = IdleMigrate
  /\ boots = 0
  /\ unprocessed = [limit |-> 0, ids |-> <<>>]
  /\ calls = 0
  /\ hist = <<>>
  /\ abandoned = {}
  /\ conversation = <<>>

NextTools ==
  \/ \E p \in LiveProcs, n \in 1..NumMsgs : MessageCreate(p, n)
  \/ \E p \in BotProcs : Pipeline(p)
  \/ ClientReady
  \/ GetLastProcessedTimestamp
  \/ FetchChannelMessagesAfter
  \/ FindExistingMessageIds
  \/ Migration

SpecTools == InitTools /\ [][NextTools]_vars

(***************************************************************************)
(* The Store on its own: RecommendationService driven through its public   *)
(* methods by concurrent callers.  recordError is the only method made of  *)
(* two awaited statements.                                                 *)
(***************************************************************************)
Limits == {1, 10}

CallCreate(c) ==
  /\ At(c, "idle")
  /\ \E n \in 1..NumMsgs :
       LET res == create(rows, [originalMessageId |-> MessageId(n), url |-> UrlA])
       IN /\ rows' = res.rows
          /\ hist' = IF res.ok THEN Append(hist, NewHist) ELSE hist
  /\ UNCHANGED <<clock, channel, forum, proc, bf, bulk, mig, boots, unprocessed, calls,
                 abandoned, conversation>>

CallUpdateMetadata(c) ==
  /\ At(c, "idle")
  /\ \E r \in DOMAIN rows, res \in AnalysisResults :
       /\ rows[r].title = 0
       /\ rows' = updateMetadata(rows, r, [title |-> res.title])
  /\ UNCHANGED <<clock, channel, forum, proc, bf, bulk, mig, boots, unprocessed, calls,
                 hist, abandoned, conversation>>

CallMarkAsProcessed(c) ==
  /\ At(c, "idle")
  /\ \E r \in DOMAIN rows :
       /\ ~rows[r].processed
       /\ forum' = Append(forum, [rid |-> r])
       /\ rows' = markAsProcessed(rows, r, Len(forum) + 1, Len(forum) + 1, clock)
       /\ clock' = clock + 1
  /\ UNCHANGED <<channel, proc, bf, bulk, mig, boots, unprocessed, calls, hist, abandoned,
                 conversation>>

CallRecordError(c) ==
  /\ At(c, "idle")
  /\ calls < MaxStoreCalls
  /\ calls' = calls + 1
  /\ \E r \in DOMAIN rows, e \in Errors :
       proc' = [proc EXCEPT ![c].pc = "recordError", ![c].rid = r, ![c].err = e]
  /\ UNCHANGED <<clock, channel, rows, forum, bf, bulk, mig, boots, unprocessed, hist,
                 abandoned, conversation>>

CallGetUnprocessed(c) ==
  /\ At(c, "idle")
  /\ rows # <<>>
  /\ \E limit \in Limits :
       unprocessed' = [limit |-> limit, ids |-> getUnprocessed(rows, limit)]
  /\ UNCHANGED <<clock, channel, rows, forum, proc, bf, bulk, mig, boots, calls, hist,
                 abandoned, conversation>>

NextStore ==
  \E c \in Callers :
    \/ CallCreate(c)
    \/ CallUpdateMetadata(c)
    \/ CallMarkAsProcessed(c)
    \/ CallRecordError(c)
    \/ RecordErrorFind(c)
    \/ RecordErrorUpdate(c)
    \/ CallGetUnprocessed(c)

SpecStore == Init /\ [][NextStore]_vars

\* fetchChannelMessagesAfter on its own: a channel history of any length up
\* to MaxHistory, one message per instant, and any last-processed timestamp
\* (0: none)
InitFetch ==
  /\ \E len \in 0..MaxHistory :
       /\ channel = [n \in 1..len |-> [url |-> UrlA, bot |-> FALSE, createdAt |-> n]]
       /\ clock = len + 1
       /\ \E t \in 0..len : bf = [IdleBackfill EXCEPT !.lastProcessedAt = t]
  /\ rows = <<>>
  /\ forum = <<>>
  /\ proc = [p \in Procs |-> IF p = Backfill THEN [IdleProc EXCEPT !.pc = "fetchBatch"]
                                              ELSE IdleProc]
  /\ bulk = IdleBulk
  /\ mig = IdleMigrate
  /\ boots = 0
  /\ unprocessed = [limit |-> 0, ids |-> <<>>]
  /\ calls = 0
  /\ hist = <<>>
  /\ abandoned = {}
  /\ conversation = <<>>

NextFetch == FetchBatch

SpecFetch == InitFetch /\ [][NextFetch]_vars

\* ContentExtractor.extract on its own, called for URLs of every kind
SpecExtract == Init /\ [][NextExtract]_vars

(***************************************************************************)
(* Properties.                                                             *)
(***************************************************************************)
RowOf(mid) == findByMessageId(rows, mid)

Range(f) == {f[i] : i \in DOMAIN f}

\* C1: however often one source message identity is submitted (live
\* delivery, redelivery, backfill replay), the table holds exactly one row
\* of that identity: never two, and one once a submission has been handled.
C1_OneRowPerIdentity ==
  /\ \A i, j \in DOMAIN rows :
       rows[i].originalMessageId = rows[j].originalMessageId => i = j
  /\ \A p \in LiveProcs :
       (At(p, "done") /\ proc[p].item.hasUrl) => RowOf(proc[p].item.id) # 0

\* a submission of an identity whose row is already published has completed
C1_Witness ==
  \E p \in LiveProcs :
    /\ At(p, "done") /\ proc[p].item.hasUrl /\ proc[p].signal = "none"
    /\ RowOf(proc[p].item.id) # 0
    /\ rows[RowOf(proc[p].item.id)].processed

\* C2: of two submissions of one identity that both passed the existence
\* pre-check, the create that comes first appends the row and the other is
\* rejected by the unique index: it writes nothing, so every field of the
\* winner's row stays as it is, and the loser gets no row.
C2_LoserFailsFast ==
  [][\A p \in BotProcs :
       (At(p, "create") /\ proc'[p].pc # "create" /\ boots' = boots) =>
         IF RowOf(proc[p].item.id) # 0
         THEN rows' = rows /\ proc'[p].rid = 0 /\ proc'[p].pc # "extract"
         ELSE /\ Len(rows') = Len(rows) + 1
              /\ rows'[Len(rows')].originalMessageId = proc[p].item.id
              /\ \A i \in DOMAIN rows : rows'[i] = rows[i]]_vars

\* both passed the pre-check; one has created and classified the row, the
\* other is about to call create
C2_Witness ==
  \E p, q \in BotProcs :
    /\ p # q
    /\ At(p, "create")
    /\ proc[q].rid # 0
    /\ rows[proc[q].rid].originalMessageId = proc[p].item.id
    /\ rows[proc[q].rid].title # 0

\* C3: createForumPost is never called for a row that is already published
\* and at most once for any row, whatever the interleaving of live handling,
\* backfill and bulk import.
C3_PostCreatedAtMostOnce ==
  [][\A r \in DOMAIN hist :
       hist'[r].postCalls # hist[r].postCalls =>
         (~rows[r].processed /\ hist[r].postCalls = 0)]_vars

\* a published row whose message has been submitted again, with one call only
C3_Witness ==
  \E p \in LiveProcs :
    /\ At(p, "done") /\ proc[p].signal = "none" /\ RowOf(proc[p].item.id) # 0
    /\ rows[RowOf(proc[p].item.id)].processed
    /\ hist[RowOf(proc[p].item.id)].postCalls = 1
    /\ \E r \in DOMAIN rows : rows[r].originalMessageId.kind = "bulk" /\ rows[r].processed

ClassificationAndPost(row) ==
  <<row.title, row.libraryType, row.primaryTag, row.secondaryTags,
    row.forumPostId, row.forumThreadId>>

RewritesPublishedRow ==
  \E r \in DOMAIN rows :
    rows[r].processed /\ ClassificationAndPost(rows'[r]) # ClassificationAndPost(rows[r])

C5_PublishedOnlyAfterPost ==
  \A r \in DOMAIN rows :
    /\ rows[r].processed =>
         /\ rows[r].forumPostId \in DOMAIN forum
         /\ forum[rows[r].forumPostId].rid = r
    /\ hist[r].postFailed => ~rows[r].processed

\* one row published with its post, another left unpublished by a failed post
C5_Witness ==
  \E r1, r2 \in DOMAIN rows :
    /\ rows[r1].processed /\ rows[r1].forumPostId \in DOMAIN forum
    /\ hist[r2].postFailed /\ ~rows[r2].processed /\ rows[r2].title # 0

\* C6 (as stated): a row left classified and unpublished by a failed post
\* creation, with its attempt counter below the ceiling, gets another
\* publication attempt from every later pass over its message (redelivery,
\* next startup backfill).
C6_RetriedByLaterPass ==
  \A p \in BotProcs :
    At(p, "done") =>
      \A r \in proc[p].saw : hist[r].postCalls >= 2 \/ rows[r].processed

\* C7 (as stated): a row that was mid-pipeline when the process stopped has
\* had the pipeline run for it again once the backfill of a later run is done.
C7_PickedUpByNextRun ==
  (boots >= 1 /\ At(Backfill, "done")) =>
    \A a \in abandoned : hist[a.rid].runs > a.runs

Eligible(row) == ~row.processed /\ row.processingAttempts < MaxAttempts

C9_CounterCountsCalls ==
  \A r \in DOMAIN rows : rows[r].processingAttempts = hist[r].errCalls

\* C10: the write of recordError changes the last-error string and the
\* attempt counter of its row and nothing else: the published flag, the
\* post identifiers and the classification fields of the row keep their
\* values, and no other row changes.
C10_RecordErrorFrame ==
  [][\A p \in Callers :
       (At(p, "recordErrorUpdate") /\ proc'[p].pc # "recordErrorUpdate") =>
         /\ rows' = [rows EXCEPT
                       ![proc[p].rid].processingError = proc[p].err,
                       ![proc[p].rid].processingAttempts = rows'[proc[p].rid].processingAttempts]
         /\ rows'[proc[p].rid].processingAttempts > 0]_vars

\* a classified, unpublished row with a recorded error
C10_Witness ==
  \E r \in DOMAIN rows :
    /\ rows[r].processingError # Null /\ rows[r].processingAttempts > 0
    /\ rows[r].title # 0 /\ ~rows[r].processed
    /\ hist[r].errCalls > 0

SynthesizerCalls == {"analyzeExtractedContent", "analyzeRecommendation"}

C12_NoSynthesisAfterFailure ==
  [][/\ \A p \in BotProcs :
          proc'[p].err = ErrSynthesis => proc'[p].pc \notin SynthesizerCalls
     /\ (At(Bulk, "bulkAnalyzeExtractedContent") /\ proc'[Bulk].pc # proc[Bulk].pc
         /\ proc'[Bulk].md \notin AnalysisResults) =>
          proc'[Bulk].pc # "bulkAnalyzeRecommendation"]_vars

ExtractLog == Range(proc[Coordinator].log)

\* C14: when the extractor matched to the URL throws a
\* ContentExtractionError, extract invokes the article extractor once on
\* that URL before it gives up.
C14_RetriesGenericOnce ==
  \A e \in ExtractLog :
    (Route(e.matches).matched /\ e.thrown = "ContentExtractionError") =>
      e.invoked = <<Route(e.matches).extractor, "article">>

\* C15: whatever the awaited extractor throws, what escapes extract is a
\* ContentExtractionError: one thrown by the extractor is passed on, an
\* error of any other type is wrapped into one that carries it as cause.
C15_SingleFailureType ==
  \A e \in ExtractLog :
    /\ e.thrown = "ok" <=> e.result.name = "ok"
    /\ e.thrown # "ok" =>
         /\ e.result.name = "ContentExtractionError"
         /\ e.result.cause = (IF e.thrown = "ContentExtractionError" THEN Null ELSE e.thrown)

\* an extractor threw a plain Error and extract threw a
\* ContentExtractionError wrapping it
C15_Witness ==
  \E e \in ExtractLog :
    /\ e.thrown = "Error"
    /\ e.result = [name |-> "ContentExtractionError", cause |-> "Error"]

\* C16: when create is rejected because the identity is already stored,
\* the caller skips the item and reports no error: the live handler gives
\* no failure signal, the backfill does not count an error and the bulk
\* import does not count the URL as failed.
C16_ConflictSkipped ==
  [][/\ \A p \in BotProcs :
          (At(p, "create") /\ proc'[p] # proc[p] /\ rows' = rows) =>
            /\ proc'[p].signal # "failure"
            /\ bf'.result.errors = bf.result.errors
     /\ (At(Bulk, "bulkCreate") /\ proc'[Bulk] # proc[Bulk] /\ rows' = rows) =>
          bulk'.result.failed = bulk.result.failed]_vars

HandlerPositions ==
  {"findByMessageId", "create", "extract", "analyzeExtractedContent",
   "analyzeRecommendation", "updateMetadata", "recordError", "recordErrorUpdate",
   "createForumPost", "markAsProcessed"}

\* C17: whatever fails while a submission is handled, the handler returns
\* normally: it is either still inside the pipeline or back where the next
\* message can be taken, and a handling that ended in failure has ended.
C17_HandlerCatchesAll ==
  \A p \in LiveProcs :
    /\ proc[p].pc \in HandlerPositions \cup {"idle", "done"}
    /\ proc[p].signal = "failure" => At(p, "done")

\* post creation failed in the handler (no backfill has run), and the same
\* handler is now in the pipeline of a later message
C17_Witness ==
  /\ boots = 0 /\ At(Backfill, "idle")
  /\ \E p \in LiveProcs, r \in DOMAIN rows :
       /\ hist[r].postFailed
       /\ proc[p].rid # 0 /\ proc[p].rid # r
       /\ At(p, "extract")

\* C18: the handling of a submission with a URL ends with a signal that
\* matches its outcome: the success signal only when the row has been
\* published, and the failure signal whenever the handling created the row
\* and ended without publishing it.
C18_SignalMatchesOutcome ==
  [][\A p \in LiveProcs :
       (boots' = boots /\ proc[p].pc \in HandlerPositions /\ proc'[p].pc = "done") =>
         /\ proc'[p].signal = "success" =>
               proc[p].rid # 0 /\ rows'[proc[p].rid].processed
         /\ (proc[p].rid # 0 /\ ~rows'[proc[p].rid].processed) =>
               proc'[p].signal = "failure"]_vars

\* C19: an error on one item of the backfill does not end the batch: the
\* loop goes on with the next selected message, and when the backfill is
\* done every selected message has been attempted (counted as processed
\* or as an error).
C19_BatchSurvivesErrors ==
  [][/\ bf'.result.errors = bf.result.errors + 1 =>
          /\ bf'.queue = Tail(bf.queue)
          /\ bf'.queue # <<>> =>
                /\ proc'[Backfill].pc = "findByMessageId"
                /\ proc'[Backfill].item = MessageItem(Head(bf'.queue))
     /\ proc'[Backfill].pc = "done" =>
          /\ bf'.queue = <<>>
          /\ bf'.result.processed + bf'.result.errors
               = bf'.result.checked - bf'.result.skipped]_vars

\* a finished backfill in which one item failed at post creation and a
\* later item was published
C19_Witness ==
  /\ At(Backfill, "done")
  /\ bf.result.errors = 1 /\ bf.result.processed = 1
  /\ \E r1, r2 \in DOMAIN rows :
       /\ r1 < r2
       /\ hist[r1].postFailed /\ ~rows[r1].processed
       /\ rows[r2].processed

\* C20: the pagination ends after finitely many fetches (every fetch after
\* which the loop goes on has collected at least one more message, and no
\* fetch is made once the cap or the timestamp boundary is reached), never
\* collects more than the cap of 100 messages, and collects no message
\* created at or before the last-published timestamp.
C20_PaginationBounded ==
  /\ Len(bf.allMessages) <= SafetyLimit
  /\ bf.fetches <= Len(bf.allMessages) + 1
  /\ \A i \in DOMAIN bf.allMessages :
       bf.lastProcessedAt # 0 => channel[bf.allMessages[i]].createdAt > bf.lastProcessedAt
  /\ At(Backfill, "fetchBatch") =>
       /\ Len(bf.allMessages) < SafetyLimit
       /\ (bf.lastProcessedAt # 0 /\ bf.lastMessageId # 0) =>
            channel[bf.lastMessageId].createdAt > bf.lastProcessedAt
  /\ At(Backfill, "fetched") =>
       /\ bf.messages = Reverse(bf.allMessages)
       /\ \A i, j \in DOMAIN bf.messages : i < j => bf.messages[i] < bf.messages[j]

\* the cap was reached on a history longer than the cap, with a
\* last-published timestamp inside the history
C20_Witness ==
  /\ At(Backfill, "fetched")
  /\ Len(channel) > SafetyLimit
  /\ bf.lastProcessedAt # 0
  /\ Len(bf.messages) = SafetyLimit

C22_OneItemAtATime ==
  [][\A p \in {Backfill, Bulk} :
       (proc'[p].item # proc[p].item /\ proc[p].item # NoItem) =>
         LET r == proc[p].rid
         IN IF r = 0
            THEN rows' = rows
            ELSE \/ rows'[r].processed
                 \/ hist'[r].postFailed
                 \/ rows'[r].processingError # Null
                 \/ p = Bulk /\ At(Bulk, "bulkAnalyzeRecommendation")]_vars

\* both runs are at work on their second item
C22_Witness ==
  /\ At(Backfill, "extract")
  /\ bf.result.processed + bf.result.errors >= 1
  /\ At(Bulk, "bulkExtract")
  /\ bulk.result.processed + bulk.result.failed >= 1

(***************************************************************************)
(* C23: when the two rows of a bulk-import file have URLs that differ only *)
(* by letter case or surrounding whitespace (they have one synthetic       *)
(* identity) and the first has been processed, the run ends with the       *)
(* second counted in skippedDuplicates and nothing reported as failed.     *)
(***************************************************************************)
C23_SecondRowSkipped ==
  (/\ At(Bulk, "done")
   /\ Len(bulk.urls) = 2
   /\ generateSyntheticMessageId(bulk.urls[1]) = generateSyntheticMessageId(bulk.urls[2])
   /\ bulk.result.processed = 1)
    => /\ bulk.result.skippedDuplicates = 1
       /\ bulk.result.failed = 0

(***************************************************************************)
(* C24: a URL of the bulk-import file that is already stored on some row   *)
(* when the URL-existence check runs is left out of the work list, and the *)
(* bulk import creates rows only for URLs of its work list: no second row  *)
(* and no post is made for such a URL.                                     *)
(***************************************************************************)
C24_StoredUrlSkipped ==
  [][/\ (At(Bulk, "bulkFindExistingUrls") /\ ~At(Bulk, "bulkFindExistingUrls")') =>
          /\ \A i \in DOMAIN bulk.urls :
               (\E r \in DOMAIN rows : rows[r].url = bulk.urls[i])
                 => bulk.urls[i] \notin Range(bulk'.queue)
          /\ bulk'.result.skippedDuplicates
               >= Cardinality({i \in DOMAIN bulk.urls :
                                 \E r \in DOMAIN rows : rows[r].url = bulk.urls[i]})
     /\ (At(Bulk, "bulkCreate") /\ proc'[Bulk] # proc[Bulk] /\ rows' # rows) =>
          /\ bulk.queue # <<>>
          /\ rows'[Len(rows')].url = Head(bulk.queue)
     /\ (proc[Bulk].pc \notin {"idle", "bulkFindExistingMessageIds", "bulkFindExistingUrls"}
           /\ bulk'.queue # bulk.queue)
          => Range(bulk'.queue) \subseteq Range(bulk.queue)]_vars

\* a run ended that skipped a URL stored by a live message, and no row of
\* the bulk import holds that URL
C24_Witness ==
  /\ At(Bulk, "done")
  /\ bulk.result.skippedDuplicates >= 1
  /\ \E i \in DOMAIN bulk.urls :
       /\ \E r \in DOMAIN rows :
            rows[r].url = bulk.urls[i] /\ rows[r].originalMessageId.kind = "msg"
       /\ \A r \in DOMAIN rows :
            rows[r].url = bulk.urls[i] => rows[r].originalMessageId.kind = "msg"

(***************************************************************************)
(* C25: when publication is attempted for an item (createForumPost is      *)
(* about to be called with the Synthesizer's result), the item's row       *)
(* holds the library assignment, the primary tag and the secondary tags    *)
(* of that result.                                                         *)
(***************************************************************************)
C25_ClassificationStored ==
  \A p \in BotProcs \cup {Bulk} :
    (proc[p].pc \in {"createForumPost", "bulkCreateForumPost"}) =>
      /\ rows[proc[p].rid].libraryType = proc[p].md.libraryType
      /\ rows[proc[p].rid].primaryTag = proc[p].md.primaryTag
      /\ rows[proc[p].rid].secondaryTags = proc[p].md.secondaryTags

(***************************************************************************)
(* C26: at every point of the tag resolution of createForumPost the list   *)
(* of applied tag ids holds no id twice and at most 5 ids, whatever the    *)
(* primary and secondary suggestions and the forum's tags are.             *)
(***************************************************************************)
C26_AppliedTagsBounded ==
  LET appliedTags == proc[Migrate].tagging.appliedTags
  IN /\ Len(appliedTags) <= TagLimit
     /\ \A i, j \in DOMAIN appliedTags : appliedTags[i] = appliedTags[j] => i = j

\* the loop ended at the limit with secondary suggestions left over
C26_Witness ==
  /\ At(Migrate, "threadsCreate")
  /\ Len(proc[Migrate].tagging.appliedTags) = TagLimit
  /\ proc[Migrate].tagging.next <= Len(proc[Migrate].md.secondaryTags)

(***************************************************************************)
(* C27: the tag returned by a findMatchingTag call respects the precedence *)
(* over all the tags it may return (configured in the library, not applied *)
(* yet): when one of them has a label equal to the suggestion, letter case *)
(* apart, the returned tag has; when one of them matches by its label      *)
(* (containment either way), the returned tag does.                        *)
(***************************************************************************)
C27_MatchPrecedence ==
  LET t == proc[Migrate].tagging
      topicLower == toLowerCase(t.call.topic)
      libraryTags == LIBRARY_TAGS[proc[Migrate].md.libraryType]
      candidates ==
        {t.availableTags[i] : i \in
           {j \in DOMAIN t.availableTags :
              /\ \A a \in DOMAIN t.call.alreadyApplied :
                   t.call.alreadyApplied[a] # t.availableTags[j].id
              /\ \E k \in DOMAIN libraryTags :
                   toLowerCase(libraryTags[k].name) = toLowerCase(t.availableTags[j].name)}}
      exact(tag) == toLowerCase(tag.name) = topicLower
      label(tag) == \/ includes(topicLower, toLowerCase(tag.name))
                    \/ includes(toLowerCase(tag.name), topicLower)
  IN proc[Migrate].pc \in {"secondaryTags", "threadsCreate"} =>
       /\ (\E tag \in candidates : exact(tag)) => exact(t.call.result)
       /\ (\E tag \in candidates : label(tag)) =>
            (t.call.result # NoTag /\ label(t.call.result))

(***************************************************************************)
(* C28: the primary tag is resolved first, on an empty list: whenever the  *)
(* primary suggestion resolves to a tag of the forum, that tag's id is the *)
(* first applied id; and once the list holds 5 ids no further secondary    *)
(* tag is resolved.                                                        *)
(***************************************************************************)
C28_PrimaryFirst ==
  [][/\ At(Migrate, "primaryTag") => proc[Migrate].tagging.appliedTags = <<>>
     /\ (proc[Migrate].pc \in {"secondaryTags", "threadsCreate"})' =>
          LET t == proc'[Migrate].tagging
              primaryTagMatch ==
                findMatchingTag(proc'[Migrate].md.primaryTag,
                                proc'[Migrate].md.libraryType, t.availableTags, <<>>)
          IN primaryTagMatch # NoTag =>
               (t.appliedTags # <<>> /\ t.appliedTags[1] = primaryTagMatch.id)
     /\ (At(Migrate, "secondaryTags")
           /\ Len(proc[Migrate].tagging.appliedTags) >= TagLimit) =>
          /\ proc'[Migrate].tagging = proc[Migrate].tagging
          /\ At(Migrate, "threadsCreate")']_vars

\* a resolved primary tag leads a list that also holds secondary tags
C28_Witness ==
  /\ At(Migrate, "threadsCreate")
  /\ Len(proc[Migrate].tagging.appliedTags) >= 2
  /\ findMatchingTag(proc[Migrate].md.primaryTag, proc[Migrate].md.libraryType,
                     proc[Migrate].tagging.availableTags, <<>>) # NoTag
  /\ proc[Migrate].tagging.appliedTags[1] =
       findMatchingTag(proc[Migrate].md.primaryTag, proc[Migrate].md.libraryType,
                       proc[Migrate].tagging.availableTags, <<>>).id

(***************************************************************************)
(* C29: the primary tag of every result the Synthesizer returns is one of  *)
(* the labels of the vocabulary of the library named in the same result.   *)
(***************************************************************************)
C29_PrimaryTagInVocabulary ==
  proc[Migrate].md # NoMetadata =>
    \E k \in DOMAIN LIBRARY_TAGS[proc[Migrate].md.libraryType] :
      LIBRARY_TAGS[proc[Migrate].md.libraryType][k].name = proc[Migrate].md.primaryTag

(***************************************************************************)
(* C30: on every row that holds a classification the secondary tags do not *)
(* contain the primary tag and are no more than the 5 tags a post may      *)
(* carry.                                                                  *)
(***************************************************************************)
C30_SecondaryTagsWellFormed ==
  \A r \in DOMAIN rows :
    rows[r].libraryType # Null =>
      /\ \A i \in DOMAIN rows[r].secondaryTags :
           rows[r].secondaryTags[i] # rows[r].primaryTag
      /\ Len(rows[r].secondaryTags) <= TagLimit

(***************************************************************************)
(* C31: when the transcript of a video was retrieved (getTranscript        *)
(* returned one segment or more), the envelope that YouTubeExtractor       *)
(* returns has transcribed = TRUE and a content body that is not empty.    *)
(***************************************************************************)
C31_TranscribedEnvelope ==
  \A p \in LiveProcs :
    (/\ proc[p].content.transcript.kind = "segments"
     /\ proc[p].content.transcript.initial_segments # <<>>)
    => /\ proc[p].content.envelope.transcribed
       /\ proc[p].content.envelope.content # <<>>

C33_RulesInOrder ==
  \A p \in LiveProcs :
    LET Earliest(sat) ==
          IF \E i \in DOMAIN Rules : sat[i]
          THEN Rules[CHOOSE i \in DOMAIN Rules :
                       sat[i] /\ \A j \in 1..(i - 1) : ~sat[j]]
          ELSE "other"
        Category(u) == Earliest(<<isYouTubeUrl(u), isAudiobookUrl(u),
                                  isPodcastUrl(u), isArticleUrl(u)>>)
        Extractor(category) == IF category = "other" THEN "article" ELSE category
    IN /\ \A k \in DOMAIN proc[p].content.detected :
            proc[p].content.detected[k].fn = "detectType"
            => proc[p].content.detected[k].category = Category(proc[p].content.url)
       /\ proc[p].invoked # <<>>
          => proc[p].invoked = <<Extractor(Category(proc[p].content.normalizedUrl))>>

\* a URL that satisfies the audiobook rule and the article rule is
\* classified and routed as an audiobook
C33_Witness ==
  \E p \in LiveProcs :
    /\ isAudiobookUrl(proc[p].content.url)
    /\ isArticleUrl(proc[p].content.url)
    /\ proc[p].content.detected # <<>>
    /\ proc[p].content.detected[1] = [fn |-> "detectType", category |-> "audiobook"]
    /\ proc[p].invoked = <<"audiobook">>

C35_NormalizeIdempotent ==
  \A p \in LiveProcs :
    proc[p].invoked # <<>>
    => normalizeUrl(proc[p].content.normalizedUrl) = proc[p].content.normalizedUrl

(***************************************************************************)
(* C36: no operation of the Store through which the live handler, the      *)
(* backfill, the bulk import, the error recording and the publication      *)
(* write removes a row: every row of a state is, with its identity, a row  *)
(* of the next state, whatever its attempt counter.                        *)
(***************************************************************************)
C36_NoRowDeleted ==
  [][\A r \in DOMAIN rows :
       /\ r \in DOMAIN rows'
       /\ rows'[r].originalMessageId = rows[r].originalMessageId]_vars

\* a row whose counter has reached the ceiling and that was published later
C36_Witness ==
  \E r \in DOMAIN rows :
    /\ rows[r].processingAttempts = MaxAttempts
    /\ rows[r].processed
    /\ Len(rows) = NumMsgs

(***************************************************************************)
(* C37: once the handling of an item has ended with a failed createForum-  *)
(* Post, the failure is recorded on the item's row: its attempt counter is *)
(* above zero and its error string is set.                                 *)
(***************************************************************************)
C37_PostFailureRecorded ==
  \A r \in DOMAIN rows :
    (hist[r].postFailed /\ \A p \in Procs : proc[p].rid # r)
    => /\ rows[r].processingAttempts >= 1
       /\ rows[r].processingError # Null

(***************************************************************************)
(* C38: BackfillResult.processed is incremented only by a step that        *)
(* publishes a row (markAsProcessed of the item in hand).                  *)
(***************************************************************************)
C38_ProcessedMeansPublished ==
  [][bf'.result.processed > bf.result.processed
     => \E r \in DOMAIN rows : ~rows[r].processed /\ rows'[r].processed]_vars

(***************************************************************************)
(* C39: a returned BackfillResult satisfies checked = skipped + processed  *)
(* + errors; while the selected messages are replayed, processed + errors  *)
(* and the messages still to replay add up to the number selected, which   *)
(* is checked - skipped.                                                   *)
(***************************************************************************)
C39_ResultAddsUp ==
  /\ At(Backfill, "done")
     => /\ bf.result.checked = bf.result.skipped + bf.result.processed + bf.result.errors
        /\ bf.result.checked = Len(bf.messages)
  /\ proc[Backfill].pc \notin {"idle", "done", "getLastProcessedTimestamp",
                               "fetchChannelMessagesAfter", "findExistingMessageIds"}
     => bf.result.processed + bf.result.errors + Len(bf.queue)
          = bf.result.checked - bf.result.skipped

C39_Witness ==
  /\ At(Backfill, "done")
  /\ bf.result.processed >= 1
  /\ bf.result.errors >= 1

(***************************************************************************)
(* C40: two stored conversation messages of one thread never have the same *)
(* message number.                                                         *)
(***************************************************************************)
C40_MessageNumbersUnique ==
  \A i, j \in DOMAIN conversation :
    (i # j /\ conversation[i].threadId = conversation[j].threadId)
    => conversation[i].messageNumber # conversation[j].messageNumber

TypeOK == Len(hist) = Len(rows)

====
